---- MODULE Spec2Model ----
(***************************************************************************)
(* A model of micro-moka's unsync::Cache: a hash table, three access-order *)
(* deques (only probation is populated), a frequency sketch and the        *)
(* counters that drive Tiny-LFU admission and LRU eviction.                *)
(*                                                                         *)
(* Every method of the cache is an operator from a cache record (the       *)
(* fields of `Cache`) to the cache record it leaves behind; every public   *)
(* method is one action that applies its operator to the variables.        *)
(***************************************************************************)
EXTENDS Integers, Sequences, FiniteSets, TLC

VARIABLES
    max_capacity,               \* Cache::max_capacity : Option<u64>
    entry_count,                \* Cache::entry_count : u64
    cache,                      \* Cache::cache : HashMap<Rc<K>, ValueEntry<K, V>>
    deques,                     \* Cache::deques : Deques<K>
    frequency_sketch,           \* Cache::frequency_sketch : FrequencySketch
    frequency_sketch_enabled,   \* Cache::frequency_sketch_enabled : bool
    panicked,                   \* a panic!/expect/unreachable! has fired
    last                        \* history: the public call that returned last

vars == <<max_capacity, entry_count, cache, deques, frequency_sketch,
          frequency_sketch_enabled, panicked, last>>

----------------------------------------------------------------------------
(* Bounds of the model *)

\* the largest max_capacity a cache is built with
MaxCapacity == 2

\* the sample threshold of the sketch (10 x table length in a build): the
\* number of increments after which the counters are halved
SampleThreshold == 2

\* the keys the operations are called with
Keys == {"a", "b", "c"}

\* the values the operations are called with
Values == {"alice", "alex", "bob", "cindy"}

\* the values a key is inserted with: "a" is given two values over time,
\* the other keys one each
ValuesOf(key) ==
    CASE key = "a" -> {"alice", "alex"}
      [] key = "b" -> {"bob"}
      [] OTHER -> {"cindy"}

----------------------------------------------------------------------------
(* Option<T> *)

None == <<>>

Some(x) == <<x>>

is_some(o) == o # <<>>

unwrap(o) == o[1]

\* the value every operator returns once a panic has fired inside it
PANIC == [panic |-> TRUE]

is_panic(x) == "panic" \in DOMAIN x

(* u64.  The integers of the model end at 2^31 - 1, so a u64 that holds a  *)
(* capacity is modelled by its three limbs in base 2^30: the record         *)
(* [hi, mid, lo] stands for hi * 2^60 + mid * 2^30 + lo.  The counts of     *)
(* entries and the weights, which are u64 in the code as well, stay         *)
(* integers: they are far below 2^30 in every state of the model.           *)
Limb == 1073741824

\* the u64 of an integer
u64(n) == [hi |-> 0, mid |-> n \div Limb, lo |-> n % Limb]

\* u64::MAX = 2^64 - 1
u64_MAX == [hi |-> 15, mid |-> Limb - 1, lo |-> Limb - 1]

\* u32::MAX = 2^32 - 1
u32_MAX == [hi |-> 0, mid |-> 3, lo |-> Limb - 1]

\* a <= b
u64_le(a, b) ==
    \/ a.hi < b.hi
    \/ a.hi = b.hi /\ a.mid < b.mid
    \/ a.hi = b.hi /\ a.mid = b.mid /\ a.lo <= b.lo

\* a / 2
u64_half(a) ==
    [hi |-> a.hi \div 2,
     mid |-> (a.mid + (a.hi % 2) * Limb) \div 2,
     lo |-> (a.lo + (a.mid % 2) * Limb) \div 2]

\* the integer of a u64 below 2^31
as_int(a) == a.mid * Limb + a.lo

\* u64::saturating_sub of a count a and a u64 b
saturating_sub(a, b) == IF u64_le(b, u64(a)) THEN a - as_int(b) ELSE 0

\* the cache regions a deque node handle is tagged with
CacheRegion == {"Window", "MainProbation", "MainProtected", "Other"}

----------------------------------------------------------------------------
(* The hasher: BuildHasher::hash_one of the key. *)

hash(key) ==
    CASE key = "a" -> 1
      [] key = "b" -> 2
      [] key = "c" -> 3
      [] OTHER -> 4

----------------------------------------------------------------------------
(* common::frequency_sketch::FrequencySketch: a table of 4-bit counters,   *)
(* four probes per hash, halved when the sample counter passes the         *)
(* threshold.  The table is kept for the counters the hashes of Keys       *)
(* probe; every other counter of the table is never incremented and stays  *)
(* 0.                                                                      *)

\* the largest value of a 4-bit counter
CounterMax == 15

\* the number of probes of one hash
NumProbes == 4

\* the counters of the table that the hashes of Keys probe
Slots == 0 .. 7

\* the counter the i-th mixer (i in 0..3) sends the hash to: hash 1 has four
\* counters of its own, and every other hash is sent to the same four
\* counters, so the hashes of "b" and "c" collide in the sketch
index_of(h, i) == IF h = 1 THEN i ELSE i + 4

Probes(h) == {index_of(h, i) : i \in 0 .. NumProbes - 1}

\* u64::next_power_of_two
RECURSIVE pow2_at_least(_, _)
pow2_at_least(n, p) == IF p >= n THEN p ELSE pow2_at_least(n, 2 * p)

next_power_of_two(n) == pow2_at_least(n, 1)

\* the largest table where the pointer width is 64 bits
MaxTableLen == 1073741824

\* the largest table where the pointer width is 32 bits
MaxTableLen32 == 16777216

\* the pointer widths of the platforms the crate is built for
PointerWidths == {32, 64}

\* the smallest table
MinTableLen == 128

\* common::sketch_capacity: the capacity handed to ensure_capacity
sketch_capacity(max_cap) ==
    IF u64_le(max_cap, u64(MinTableLen)) THEN u64(MinTableLen) ELSE max_cap

\* FrequencySketch::default(): no table.  pointer_width is the pointer width
\* of the build, which the largest table depends on; sample_size is the
\* sample threshold of the sketch
FrequencySketch_default ==
    [table_len |-> 0, table |-> [s \in Slots |-> 0], size |-> 0,
     pointer_width |-> 64, sample_size |-> SampleThreshold]

\* FrequencySketch::ensure_capacity
ensure_capacity(freq, cap) ==
    IF u64_le(cap, u64(freq.table_len)) THEN freq
    ELSE LET ceiling == IF freq.pointer_width = 32 THEN MaxTableLen32
                        ELSE MaxTableLen
             maximum == IF u64_le(cap, u64(ceiling)) THEN as_int(cap) ELSE ceiling
         IN  [freq EXCEPT !.table_len = next_power_of_two(maximum),
                          !.table = [s \in Slots |-> 0],
                          !.size = 0]

\* FrequencySketch::frequency: the minimum of the probed counters
frequency(freq, h) ==
    IF freq.table_len = 0 THEN 0
    ELSE CHOOSE m \in 0 .. CounterMax :
            /\ \E s \in Probes(h) : freq.table[s] = m
            /\ \A s \in Probes(h) : freq.table[s] >= m

\* the aging step that keeps the counters as they are
reset_keeping(table) == table

\* the aging step: every counter is halved
reset(table) == [s \in Slots |-> table[s] \div 2]

\* FrequencySketch::increment raising the probed counters without a limit
increment_unsaturated(freq, h) ==
    IF freq.table_len = 0 THEN freq
    ELSE LET bumped == [s \in Slots |->
                          IF s \in Probes(h)
                          THEN freq.table[s] + 1 ELSE freq.table[s]]
             sampled == freq.size + 1
         IN  IF sampled > freq.sample_size
             THEN [freq EXCEPT !.table = reset(bumped), !.size = 0]
             ELSE [freq EXCEPT !.table = bumped, !.size = sampled]

\* FrequencySketch::increment
increment(freq, h) ==
    IF freq.table_len = 0 THEN freq
    ELSE LET bumped == [s \in Slots |->
                          IF s \in Probes(h) /\ freq.table[s] < CounterMax
                          THEN freq.table[s] + 1 ELSE freq.table[s]]
             sampled == freq.size + 1
         IN  IF sampled > freq.sample_size
             THEN [freq EXCEPT !.table = reset(bumped), !.size = 0]
             ELSE [freq EXCEPT !.table = bumped, !.size = sampled]

----------------------------------------------------------------------------
(* common::deque::Deque: a doubly linked list of nodes, kept as the        *)
(* sequence of its nodes from head to tail.  A node is                     *)
(* [id, element |-> KeyHashDate]; id is its address.                       *)

KeyHashDate_new(key, h) == [key |-> key, hash |-> h]

DeqNode_new(id, kh) == [id |-> id, element |-> kh]

Deque_new(region) == [region |-> region, nodes |-> <<>>]

Deque_contains(deq, id) == \E i \in 1 .. Len(deq.nodes) : deq.nodes[i].id = id

Deque_push_back(deq, node) == [deq EXCEPT !.nodes = Append(@, node)]

Deque_peek_front(deq) ==
    IF deq.nodes = <<>> THEN None ELSE Some(deq.nodes[1])

Deque_pop_front(deq) ==
    IF deq.nodes = <<>> THEN deq ELSE [deq EXCEPT !.nodes = Tail(@)]

\* the nodes of s without the node id, in order
without(s, id) == SelectSeq(s, LAMBDA n : n.id # id)

Deque_unlink_and_drop(deq, id) == [deq EXCEPT !.nodes = without(@, id)]

Deque_move_to_back(deq, id) ==
    IF ~Deque_contains(deq, id) THEN deq
    ELSE LET node == CHOOSE n \in {deq.nodes[i] : i \in 1 .. Len(deq.nodes)} :
                        n.id = id
         IN  [deq EXCEPT !.nodes = Append(without(@, id), node)]

\* DeqNode::next_node_ptr: the node after the node id, if any
next_node_ptr(deq, id) ==
    LET after == {i \in 2 .. Len(deq.nodes) : deq.nodes[i - 1].id = id}
    IN  IF after = {} THEN None
        ELSE Some(deq.nodes[CHOOSE i \in after : TRUE])

----------------------------------------------------------------------------
(* unsync::ValueEntry: the value and the optional tagged handle            *)
(* [node |-> id, tag |-> region] of its deque node.                        *)

ValueEntry_new(value) == [value |-> value, access_order_q_node |-> None]

\* replace_deq_nodes_with that leaves the node handle with other
replace_deq_nodes_with_nothing(self, other) == self

\* ValueEntry::replace_deq_nodes_with: self takes the node handle of other
replace_deq_nodes_with(self, other) ==
    [self EXCEPT !.access_order_q_node = other.access_order_q_node]

\* ValueEntry::policy_weight
policy_weight_of(entry) == 1

----------------------------------------------------------------------------
(* unsync::deques::Deques *)

Deques_default ==
    [window |-> Deque_new("Window"),
     probation |-> Deque_new("MainProbation"),
     protected |-> Deque_new("MainProtected")]

\* Deques::clear
Deques_clear(deqs) == Deques_default

\* the addresses of the nodes linked in some deque
LiveNodes(deqs) ==
    {deqs.window.nodes[i].id : i \in 1 .. Len(deqs.window.nodes)}
    \cup {deqs.probation.nodes[i].id : i \in 1 .. Len(deqs.probation.nodes)}
    \cup {deqs.protected.nodes[i].id : i \in 1 .. Len(deqs.protected.nodes)}

\* Box::new: the address of a new node, the lowest one not in use
Box_new(deqs) ==
    CHOOSE id \in 1 .. Cardinality(LiveNodes(deqs)) + 1 :
        /\ id \notin LiveNodes(deqs)
        /\ \A j \in 1 .. id - 1 : j \in LiveNodes(deqs)

\* Deques::push_back_ao linking the node in probation and tagging the handle
\* of the entry with the region Other
push_back_ao_mistagged(deqs, region, kh, entry) ==
    LET node == DeqNode_new(Box_new(deqs), kh)
    IN  [deques |-> [deqs EXCEPT !.probation = Deque_push_back(@, node)],
         entry |-> [entry EXCEPT !.access_order_q_node =
                                    Some([node |-> node.id, tag |-> "Other"])]]

\* Deques::push_back_ao: the deques and the entry after the call
push_back_ao(deqs, region, kh, entry) ==
    LET node == DeqNode_new(Box_new(deqs), kh)
        handle == Some([node |-> node.id, tag |-> region])
    IN  CASE region = "Window" ->
               [deques |-> [deqs EXCEPT !.window = Deque_push_back(@, node)],
                entry |-> [entry EXCEPT !.access_order_q_node = handle]]
          [] region = "MainProbation" ->
               [deques |-> [deqs EXCEPT !.probation = Deque_push_back(@, node)],
                entry |-> [entry EXCEPT !.access_order_q_node = handle]]
          [] region = "MainProtected" ->
               [deques |-> [deqs EXCEPT !.protected = Deque_push_back(@, node)],
                entry |-> [entry EXCEPT !.access_order_q_node = handle]]
          [] OTHER -> PANIC

\* Deques::move_to_back_ao leaving the node where it is
move_to_back_ao_still(deqs, entry) == deqs

\* Deques::move_to_back_ao
move_to_back_ao(deqs, entry) ==
    IF ~is_some(entry.access_order_q_node) THEN deqs
    ELSE LET node == unwrap(entry.access_order_q_node).node
             tag == unwrap(entry.access_order_q_node).tag
         IN  CASE tag = "Window" ->
                    IF ~Deque_contains(deqs.window, node) THEN PANIC
                    ELSE [deqs EXCEPT !.window = Deque_move_to_back(@, node)]
               [] tag = "MainProbation" ->
                    IF ~Deque_contains(deqs.probation, node) THEN PANIC
                    ELSE [deqs EXCEPT !.probation = Deque_move_to_back(@, node)]
               [] tag = "MainProtected" ->
                    IF ~Deque_contains(deqs.protected, node) THEN PANIC
                    ELSE [deqs EXCEPT !.protected = Deque_move_to_back(@, node)]
               [] OTHER -> PANIC

\* Deques::unlink_node_ao_from_deque: the deque after the call
unlink_node_ao_from_deque(deq, tagged_node) ==
    IF deq.region # tagged_node.tag THEN PANIC
    ELSE IF ~Deque_contains(deq, tagged_node.node) THEN PANIC
    ELSE Deque_unlink_and_drop(deq, tagged_node.node)

\* Deques::unlink_node_ao
unlink_node_ao(deqs, tagged_node) ==
    LET tag == tagged_node.tag
        deq == CASE tag = "Window" -> deqs.window
                 [] tag = "MainProbation" -> deqs.probation
                 [] OTHER -> deqs.protected
        unlinked == unlink_node_ao_from_deque(deq, tagged_node)
    IN  IF tag = "Other" \/ is_panic(unlinked) THEN PANIC
        ELSE CASE tag = "Window" -> [deqs EXCEPT !.window = unlinked]
               [] tag = "MainProbation" -> [deqs EXCEPT !.probation = unlinked]
               [] OTHER -> [deqs EXCEPT !.protected = unlinked]

\* Deques::unlink_ao: the entry gives up its node handle and is dropped by
\* every caller, so only the deques are returned
unlink_ao(deqs, entry) ==
    IF is_some(entry.access_order_q_node)
    THEN unlink_node_ao(deqs, unwrap(entry.access_order_q_node))
    ELSE deqs

\* Deques::unlink_ao_from_deque
unlink_ao_from_deque(deq, entry) ==
    IF is_some(entry.access_order_q_node)
    THEN unlink_node_ao_from_deque(deq, unwrap(entry.access_order_q_node))
    ELSE deq

----------------------------------------------------------------------------
(* unsync::Cache.  A cache record has the fields of the struct:            *)
(* max_capacity, entry_count, cache, deques, frequency_sketch and          *)
(* frequency_sketch_enabled.  The hash table `cache` is a function from    *)
(* the present keys to their ValueEntry.                                   *)

EVICTION_BATCH_SIZE == 100

\* HashMap::remove
HashMap_remove(map, key) == [k \in DOMAIN map \ {key} |-> map[k]]

\* HashMap::insert
HashMap_insert(map, key, entry) ==
    [k \in DOMAIN map \cup {key} |-> IF k = key THEN entry ELSE map[k]]

\* Cache::with_everything
with_everything(max_cap) ==
    [max_capacity |-> max_cap,
     entry_count |-> 0,
     cache |-> [k \in {} |-> ValueEntry_new("")],
     deques |-> Deques_default,
     frequency_sketch |-> FrequencySketch_default,
     frequency_sketch_enabled |-> FALSE]

\* has_enough_capacity with the candidate's weight left out of the sum
has_enough_capacity_unweighted(self, candidate_weight, ws) ==
    IF is_some(self.max_capacity)
    THEN u64_le(u64(ws), unwrap(self.max_capacity))
    ELSE TRUE

\* has_enough_capacity with < in place of <=
has_enough_capacity_strict(self, candidate_weight, ws) ==
    IF is_some(self.max_capacity)
    THEN /\ u64_le(u64(ws + candidate_weight), unwrap(self.max_capacity))
         /\ u64(ws + candidate_weight) # unwrap(self.max_capacity)
    ELSE TRUE

\* Cache::has_enough_capacity
has_enough_capacity(self, candidate_weight, ws) ==
    IF is_some(self.max_capacity)
    THEN u64_le(u64(ws + candidate_weight), unwrap(self.max_capacity))
    ELSE TRUE

\* weights_to_evict that makes room for one more entry ahead of time
weights_to_evict_ahead(self) ==
    IF is_some(self.max_capacity)
    THEN saturating_sub(self.entry_count + 1, unwrap(self.max_capacity))
    ELSE 0

\* Cache::weights_to_evict
weights_to_evict(self) ==
    IF is_some(self.max_capacity)
    THEN saturating_sub(self.entry_count, unwrap(self.max_capacity))
    ELSE 0

\* should_enable_frequency_sketch waiting for the cache to be full
should_enable_frequency_sketch_when_full(self) ==
    IF self.frequency_sketch_enabled THEN FALSE
    ELSE IF is_some(self.max_capacity)
    THEN u64_le(unwrap(self.max_capacity), u64(self.entry_count))
    ELSE FALSE

\* Cache::should_enable_frequency_sketch
should_enable_frequency_sketch(self) ==
    IF self.frequency_sketch_enabled THEN FALSE
    ELSE IF is_some(self.max_capacity)
    THEN u64_le(u64_half(unwrap(self.max_capacity)), u64(self.entry_count))
    ELSE FALSE

\* do_enable_frequency_sketch handing the cache capacity to ensure_capacity
\* as it is, without common::sketch_capacity
do_enable_frequency_sketch_unsized(self, cache_capacity) ==
    [self EXCEPT
        !.frequency_sketch = ensure_capacity(@, cache_capacity),
        !.frequency_sketch_enabled = TRUE]

\* Cache::do_enable_frequency_sketch
do_enable_frequency_sketch(self, cache_capacity) ==
    [self EXCEPT
        !.frequency_sketch = ensure_capacity(@, sketch_capacity(cache_capacity)),
        !.frequency_sketch_enabled = TRUE]

\* Cache::enable_frequency_sketch
enable_frequency_sketch(self) ==
    IF is_some(self.max_capacity)
    THEN do_enable_frequency_sketch(self, unwrap(self.max_capacity))
    ELSE self

\* Cache::enable_frequency_sketch_for_testing
enable_frequency_sketch_for_testing(self) ==
    IF is_some(self.max_capacity)
    THEN do_enable_frequency_sketch(self, unwrap(self.max_capacity))
    ELSE self

\* Cache::record_hit
record_hit(deqs, entry) == move_to_back_ao(deqs, entry)

\* EntrySizeAndFrequency::new
EntrySizeAndFrequency_new(policy_weight) == [weight |-> policy_weight, freq |-> 0]

\* EntrySizeAndFrequency::add_policy_weight
add_policy_weight(esf) == [esf EXCEPT !.weight = @ + 1]

\* EntrySizeAndFrequency::add_frequency
add_frequency(esf, freq, h) == [esf EXCEPT !.freq = @ + frequency(freq, h)]

\* the loop of Cache::evict_lru_entries breaks: enough weight is evicted or
\* probation is empty; st holds probation, cache, evicted_count and
\* evicted_policy_weight
evict_break(st, to_evict) ==
    \/ st.evicted_policy_weight >= to_evict
    \/ ~is_some(Deque_peek_front(st.probation))

\* one iteration of the loop that does not break
evict_iteration(st, to_evict) ==
    LET front == Deque_peek_front(st.probation)
        key == unwrap(front).element.key
    IN  IF key \in DOMAIN st.cache
        THEN LET entry == st.cache[key]
                 unlinked == unlink_ao_from_deque(st.probation, entry)
             IN  IF is_panic(unlinked) THEN PANIC
                 ELSE [probation |-> unlinked,
                       cache |-> HashMap_remove(st.cache, key),
                       evicted_count |-> st.evicted_count + 1,
                       evicted_policy_weight |->
                           st.evicted_policy_weight + policy_weight_of(entry)]
        ELSE [st EXCEPT !.probation = Deque_pop_front(@)]

\* the loop of Cache::evict_lru_entries: up to i iterations from st, the
\* first half of them and then the rest
RECURSIVE evict_loop(_, _, _)
evict_loop(st, to_evict, i) ==
    IF i = 0 \/ evict_break(st, to_evict) THEN st
    ELSE IF i = 1 THEN evict_iteration(st, to_evict)
    ELSE LET half == evict_loop(st, to_evict, i \div 2)
         IN  IF is_panic(half) THEN PANIC
             ELSE evict_loop(half, to_evict, i - i \div 2)

\* evict_lru_entries without the limit of one batch
evict_lru_entries_unbatched(self) ==
    LET st == evict_loop([probation |-> self.deques.probation,
                          cache |-> self.cache,
                          evicted_count |-> 0,
                          evicted_policy_weight |-> 0],
                         weights_to_evict(self), self.entry_count + 1)
    IN  IF is_panic(st) THEN PANIC
        ELSE [self EXCEPT !.deques.probation = st.probation,
                          !.cache = st.cache,
                          !.entry_count = @ - st.evicted_count]

\* Cache::evict_lru_entries
evict_lru_entries(self) ==
    LET st == evict_loop([probation |-> self.deques.probation,
                          cache |-> self.cache,
                          evicted_count |-> 0,
                          evicted_policy_weight |-> 0],
                         weights_to_evict(self), EVICTION_BATCH_SIZE)
    IN  IF is_panic(st) THEN PANIC
        ELSE [self EXCEPT !.deques.probation = st.probation,
                          !.cache = st.cache,
                          !.entry_count = @ - st.evicted_count]

\* the loop of Cache::admit
RECURSIVE admit_loop(_, _, _, _, _)
admit_loop(candidate, deqs, freq, acc, next_victim) ==
    IF ~(acc.victims.weight < candidate.weight) THEN acc
    ELSE IF candidate.freq < acc.victims.freq THEN acc
    ELSE IF is_some(next_victim)
    THEN LET victim == unwrap(next_victim)
         IN  admit_loop(candidate, deqs, freq,
                [victims |-> add_frequency(add_policy_weight(acc.victims),
                                           freq, victim.element.hash),
                 victim_nodes |-> Append(acc.victim_nodes, victim)],
                next_node_ptr(deqs.probation, victim.id))
    ELSE acc

\* admit with the comparison of the paper, >= in place of >
admit_nonstrict(candidate, deqs, freq) ==
    LET acc == admit_loop(candidate, deqs, freq,
                          [victims |-> EntrySizeAndFrequency_new(0),
                           victim_nodes |-> <<>>],
                          Deque_peek_front(deqs.probation))
    IN  IF acc.victims.weight >= candidate.weight
           /\ candidate.freq >= acc.victims.freq
        THEN [admitted |-> TRUE, victim_nodes |-> acc.victim_nodes]
        ELSE [admitted |-> FALSE, victim_nodes |-> <<>>]

\* Cache::admit: [admitted, victim_nodes]
admit(candidate, deqs, freq) ==
    LET acc == admit_loop(candidate, deqs, freq,
                          [victims |-> EntrySizeAndFrequency_new(0),
                           victim_nodes |-> <<>>],
                          Deque_peek_front(deqs.probation))
    IN  IF acc.victims.weight >= candidate.weight
           /\ candidate.freq > acc.victims.freq
        THEN [admitted |-> TRUE, victim_nodes |-> acc.victim_nodes]
        ELSE [admitted |-> FALSE, victim_nodes |-> <<>>]

\* remove_victims without entry_count -= 1
RECURSIVE remove_victims_uncounted(_, _)
remove_victims_uncounted(self, victim_nodes) ==
    IF victim_nodes = <<>> THEN self
    ELSE LET key == Head(victim_nodes).element.key
         IN  IF key \notin DOMAIN self.cache THEN PANIC
             ELSE LET unlinked == unlink_ao(self.deques, self.cache[key])
                  IN  IF is_panic(unlinked) THEN PANIC
                      ELSE remove_victims_uncounted(
                             [self EXCEPT !.cache = HashMap_remove(@, key),
                                          !.deques = unlinked],
                             Tail(victim_nodes))

\* the loop of Cache::handle_insert that removes the victims from the hash
\* table and the deques
RECURSIVE remove_victims(_, _)
remove_victims(self, victim_nodes) ==
    IF victim_nodes = <<>> THEN self
    ELSE LET key == Head(victim_nodes).element.key
         IN  IF key \notin DOMAIN self.cache THEN PANIC
             ELSE LET unlinked == unlink_ao(self.deques, self.cache[key])
                  IN  IF is_panic(unlinked) THEN PANIC
                      ELSE remove_victims(
                             [self EXCEPT !.cache = HashMap_remove(@, key),
                                          !.deques = unlinked,
                                          !.entry_count = @ - 1],
                             Tail(victim_nodes))

\* the tail of both successful branches of Cache::handle_insert: link the
\* candidate, count it, enable the sketch if it is due
link_candidate(self, key, h) ==
    IF key \notin DOMAIN self.cache THEN PANIC
    ELSE LET pushed == push_back_ao(self.deques, "MainProbation",
                                    KeyHashDate_new(key, h), self.cache[key])
         IN  IF is_panic(pushed) THEN PANIC
             ELSE LET linked == [self EXCEPT !.deques = pushed.deques,
                                             !.cache[key] = pushed.entry,
                                             !.entry_count = @ + 1]
                  IN  IF should_enable_frequency_sketch(linked)
                      THEN enable_frequency_sketch(linked)
                      ELSE linked

\* handle_insert that returns from the too-big branch without removing the
\* candidate from the hash table
handle_insert_oversized_kept(self, key, h, policy_weight) ==
    IF has_enough_capacity(self, policy_weight, self.entry_count)
    THEN link_candidate(self, key, h)
    ELSE IF /\ is_some(self.max_capacity)
            /\ ~u64_le(u64(policy_weight), unwrap(self.max_capacity))
    THEN self
    ELSE LET candidate == add_frequency(EntrySizeAndFrequency_new(policy_weight),
                                        self.frequency_sketch, h)
             result == admit(candidate, self.deques, self.frequency_sketch)
         IN  IF result.admitted
             THEN LET removed == remove_victims(self, result.victim_nodes)
                  IN  IF is_panic(removed) THEN PANIC
                      ELSE link_candidate(removed, key, h)
             ELSE [self EXCEPT !.cache = HashMap_remove(@, key)]

\* handle_insert that leaves a rejected candidate in the hash table
handle_insert_unrolled(self, key, h, policy_weight) ==
    IF has_enough_capacity(self, policy_weight, self.entry_count)
    THEN link_candidate(self, key, h)
    ELSE IF /\ is_some(self.max_capacity)
            /\ ~u64_le(u64(policy_weight), unwrap(self.max_capacity))
    THEN [self EXCEPT !.cache = HashMap_remove(@, key)]
    ELSE LET candidate == add_frequency(EntrySizeAndFrequency_new(policy_weight),
                                        self.frequency_sketch, h)
             result == admit(candidate, self.deques, self.frequency_sketch)
         IN  IF result.admitted
             THEN LET removed == remove_victims(self, result.victim_nodes)
                  IN  IF is_panic(removed) THEN PANIC
                      ELSE link_candidate(removed, key, h)
             ELSE self

\* handle_insert that asks whether the sketch is due only after an
\* admission, not after linking a candidate into free space
handle_insert_enabling_on_admission(self, key, h, policy_weight) ==
    IF has_enough_capacity(self, policy_weight, self.entry_count)
    THEN IF key \notin DOMAIN self.cache THEN PANIC
         ELSE LET pushed == push_back_ao(self.deques, "MainProbation",
                                         KeyHashDate_new(key, h),
                                         self.cache[key])
              IN  IF is_panic(pushed) THEN PANIC
                  ELSE [self EXCEPT !.deques = pushed.deques,
                                    !.cache[key] = pushed.entry,
                                    !.entry_count = @ + 1]
    ELSE IF /\ is_some(self.max_capacity)
            /\ ~u64_le(u64(policy_weight), unwrap(self.max_capacity))
    THEN [self EXCEPT !.cache = HashMap_remove(@, key)]
    ELSE LET candidate == add_frequency(EntrySizeAndFrequency_new(policy_weight),
                                        self.frequency_sketch, h)
             result == admit(candidate, self.deques, self.frequency_sketch)
         IN  IF result.admitted
             THEN LET removed == remove_victims(self, result.victim_nodes)
                  IN  IF is_panic(removed) THEN PANIC
                      ELSE link_candidate(removed, key, h)
             ELSE [self EXCEPT !.cache = HashMap_remove(@, key)]

\* handle_insert linking the candidate whether there is room for it or not
handle_insert_unchecked(self, key, h, policy_weight) ==
    link_candidate(self, key, h)

\* Cache::handle_insert
handle_insert(self, key, h, policy_weight) ==
    IF has_enough_capacity(self, policy_weight, self.entry_count)
    THEN link_candidate(self, key, h)
    ELSE IF /\ is_some(self.max_capacity)
            /\ ~u64_le(u64(policy_weight), unwrap(self.max_capacity))
    THEN [self EXCEPT !.cache = HashMap_remove(@, key)]
    ELSE LET candidate == add_frequency(EntrySizeAndFrequency_new(policy_weight),
                                        self.frequency_sketch, h)
             result == admit(candidate, self.deques, self.frequency_sketch)
         IN  IF result.admitted
             THEN LET removed == remove_victims(self, result.victim_nodes)
                  IN  IF is_panic(removed) THEN PANIC
                      ELSE link_candidate(removed, key, h)
             ELSE [self EXCEPT !.cache = HashMap_remove(@, key)]

\* Cache::handle_update
handle_update(self, key, policy_weight, old_entry) ==
    LET entry == replace_deq_nodes_with(self.cache[key], old_entry)
        moved == move_to_back_ao(self.deques, entry)
    IN  IF is_panic(moved) THEN PANIC
        ELSE [self EXCEPT !.cache[key] = entry, !.deques = moved]

----------------------------------------------------------------------------
(* The public methods: [self |-> the cache after the call, ret |-> the     *)
(* value returned], or PANIC.                                              *)

\* contains_key that answers whether the hash table holds any key
contains_key_any(self, key) ==
    LET swept == evict_lru_entries(self)
    IN  IF is_panic(swept) THEN PANIC
        ELSE [self |-> swept, first_call |-> "evict_lru_entries",
                              ret |-> DOMAIN swept.cache # {}]

\* contains_key that counts as a read in the frequency sketch
contains_key_counted(self, key) ==
    LET swept == evict_lru_entries(self)
    IN  IF is_panic(swept) THEN PANIC
        ELSE [self |-> [swept EXCEPT
                          !.frequency_sketch = increment(@, hash(key))],
              first_call |-> "evict_lru_entries",
              ret |-> key \in DOMAIN swept.cache]

\* Cache::contains_key without the sweep
contains_key_unswept(self, key) ==
    [self |-> self, first_call |-> "cache.contains_key",
     ret |-> key \in DOMAIN self.cache]

\* Cache::contains_key
contains_key(self, key) ==
    LET swept == evict_lru_entries(self)
    IN  IF is_panic(swept) THEN PANIC
        ELSE [self |-> swept, first_call |-> "evict_lru_entries",
                              ret |-> key \in DOMAIN swept.cache]

\* Cache::get counting the key in the sketch only when it is found
get_counting_hits(self, key) ==
    LET swept == evict_lru_entries(self)
    IN  IF is_panic(swept) THEN PANIC
        ELSE IF key \in DOMAIN swept.cache
             THEN LET counted == [swept EXCEPT
                                    !.frequency_sketch = increment(@, hash(key))]
                      moved == record_hit(counted.deques, counted.cache[key])
                  IN  IF is_panic(moved) THEN PANIC
                      ELSE [self |-> [counted EXCEPT !.deques = moved],
                            first_call |-> "evict_lru_entries",
                            ret |-> Some(counted.cache[key].value)]
             ELSE [self |-> swept, first_call |-> "evict_lru_entries",
                                   ret |-> None]

\* Cache::get without the count in the sketch
get_uncounted(self, key) ==
    LET swept == evict_lru_entries(self)
    IN  IF is_panic(swept) THEN PANIC
        ELSE IF key \in DOMAIN swept.cache
             THEN LET moved == record_hit(swept.deques, swept.cache[key])
                  IN  IF is_panic(moved) THEN PANIC
                      ELSE [self |-> [swept EXCEPT !.deques = moved],
                            first_call |-> "evict_lru_entries",
                            ret |-> Some(swept.cache[key].value)]
             ELSE [self |-> swept, first_call |-> "evict_lru_entries",
                   ret |-> None]

\* Cache::get
get(self, key) ==
    LET swept == evict_lru_entries(self)
    IN  IF is_panic(swept) THEN PANIC
        ELSE LET counted == [swept EXCEPT
                               !.frequency_sketch = increment(@, hash(key))]
             IN  IF key \in DOMAIN counted.cache
                 THEN LET moved == record_hit(counted.deques, counted.cache[key])
                      IN  IF is_panic(moved) THEN PANIC
                          ELSE [self |-> [counted EXCEPT !.deques = moved],
                                first_call |-> "evict_lru_entries",
                                ret |-> Some(counted.cache[key].value)]
                 ELSE [self |-> counted, first_call |-> "evict_lru_entries",
                                         ret |-> None]

\* Cache::insert counting the key in the frequency sketch as get does
insert_counting(self, key, value) ==
    LET swept == evict_lru_entries(self)
        policy_weight == 1
    IN  IF is_panic(swept) THEN PANIC
        ELSE LET counted == [swept EXCEPT
                               !.frequency_sketch = increment(@, hash(key))]
                 stored == [counted EXCEPT !.cache =
                              HashMap_insert(@, key, ValueEntry_new(value))]
                 done == IF key \in DOMAIN counted.cache
                         THEN handle_update(stored, key, policy_weight,
                                            counted.cache[key])
                         ELSE handle_insert(stored, key, hash(key), policy_weight)
             IN  IF is_panic(done) THEN PANIC
                 ELSE [self |-> done, first_call |-> "evict_lru_entries",
                       ret |-> None]

\* Cache::insert
insert(self, key, value) ==
    LET swept == evict_lru_entries(self)
        policy_weight == 1
    IN  IF is_panic(swept) THEN PANIC
        ELSE LET stored == [swept EXCEPT !.cache =
                              HashMap_insert(@, key, ValueEntry_new(value))]
                 done == IF key \in DOMAIN swept.cache
                         THEN handle_update(stored, key, policy_weight,
                                            swept.cache[key])
                         ELSE handle_insert(stored, key, hash(key), policy_weight)
             IN  IF is_panic(done) THEN PANIC
                 ELSE [self |-> done, first_call |-> "evict_lru_entries",
                                      ret |-> None]

\* Cache::remove without the entry_count -= 1 of the present branch
remove_uncounted(self, key) ==
    LET swept == evict_lru_entries(self)
    IN  IF is_panic(swept) THEN PANIC
        ELSE IF key \in DOMAIN swept.cache
        THEN LET unlinked == unlink_ao(swept.deques, swept.cache[key])
             IN  IF is_panic(unlinked) THEN PANIC
                 ELSE [self |-> [swept EXCEPT !.cache = HashMap_remove(@, key),
                                              !.deques = unlinked],
                       first_call |-> "evict_lru_entries",
                       ret |-> Some(swept.cache[key].value)]
        ELSE [self |-> swept, first_call |-> "evict_lru_entries", ret |-> None]

\* Cache::remove
remove(self, key) ==
    LET swept == evict_lru_entries(self)
    IN  IF is_panic(swept) THEN PANIC
        ELSE IF key \in DOMAIN swept.cache
        THEN LET unlinked == unlink_ao(swept.deques, swept.cache[key])
             IN  IF is_panic(unlinked) THEN PANIC
                 ELSE [self |-> [swept EXCEPT !.cache = HashMap_remove(@, key),
                                              !.deques = unlinked,
                                              !.entry_count = @ - 1],
                       first_call |-> "evict_lru_entries",
                       ret |-> Some(swept.cache[key].value)]
        ELSE [self |-> swept, first_call |-> "evict_lru_entries", ret |-> None]

\* Cache::invalidate without the entry_count -= 1 of the present branch
invalidate_uncounted(self, key) ==
    LET swept == evict_lru_entries(self)
    IN  IF is_panic(swept) THEN PANIC
        ELSE IF key \in DOMAIN swept.cache
        THEN LET unlinked == unlink_ao(swept.deques, swept.cache[key])
             IN  IF is_panic(unlinked) THEN PANIC
                 ELSE [self |-> [swept EXCEPT !.cache = HashMap_remove(@, key),
                                              !.deques = unlinked],
                       first_call |-> "evict_lru_entries", ret |-> None]
        ELSE [self |-> swept, first_call |-> "evict_lru_entries", ret |-> None]

\* Cache::invalidate
invalidate(self, key) ==
    LET swept == evict_lru_entries(self)
    IN  IF is_panic(swept) THEN PANIC
        ELSE IF key \in DOMAIN swept.cache
        THEN LET unlinked == unlink_ao(swept.deques, swept.cache[key])
             IN  IF is_panic(unlinked) THEN PANIC
                 ELSE [self |-> [swept EXCEPT !.cache = HashMap_remove(@, key),
                                              !.deques = unlinked,
                                              !.entry_count = @ - 1],
                       first_call |-> "evict_lru_entries", ret |-> None]
        ELSE [self |-> swept, first_call |-> "evict_lru_entries", ret |-> None]

\* Cache::invalidate_all that also starts the popularity estimator afresh
invalidate_all_forgetful(self) ==
    [self |-> [self EXCEPT !.cache = [k \in {} |-> ValueEntry_new("")],
                           !.deques = Deques_clear(@),
                           !.entry_count = 0,
                           !.frequency_sketch = FrequencySketch_default,
                           !.frequency_sketch_enabled = FALSE],
     first_call |-> "cache.capacity", ret |-> None]

\* Cache::invalidate_all without self.deques.clear()
invalidate_all_keeps_deques(self) ==
    [self |-> [self EXCEPT !.cache = [k \in {} |-> ValueEntry_new("")],
                           !.entry_count = 0],
     first_call |-> "cache.capacity", ret |-> None]

\* Cache::invalidate_all disabling the sketch of the emptied cache
invalidate_all_disabling(self) ==
    [self |-> [self EXCEPT !.cache = [k \in {} |-> ValueEntry_new("")],
                           !.deques = Deques_clear(@),
                           !.entry_count = 0,
                           !.frequency_sketch_enabled = FALSE],
     first_call |-> "cache.capacity", ret |-> None]

\* Cache::invalidate_all
invalidate_all(self) ==
    [self |-> [self EXCEPT !.cache = [k \in {} |-> ValueEntry_new("")],
                           !.deques = Deques_clear(@),
                           !.entry_count = 0],
     first_call |-> "cache.capacity", ret |-> None]

\* invalidate_all with the table cleared in place before the deques and
\* entry_count are reset: what a destructor that fails in the clearing leaves
invalidate_all_unwound_in_clear(self) ==
    [self EXCEPT !.cache = [k \in {} |-> ValueEntry_new("")]]

\* Cache::invalidate_all when a value destructor panics in drop(old_cache):
\* the writes of phase 1 are done (the table swapped for an empty one, the
\* deques cleared, entry_count reset) and the call unwinds to the caller
\* before phase 2, which changes no field of the model
invalidate_all_unwound(self) ==
    [self EXCEPT !.cache = [k \in {} |-> ValueEntry_new("")],
                 !.deques = Deques_clear(@),
                 !.entry_count = 0]

\* the removal loop of Cache::invalidate_entries_if; st holds cache, deques
\* and invalidated
RECURSIVE invalidate_loop(_, _)
invalidate_loop(st, keys_to_invalidate) ==
    IF keys_to_invalidate = {} THEN st
    ELSE LET k == CHOOSE x \in keys_to_invalidate : TRUE
         IN  IF k \in DOMAIN st.cache
             THEN LET unlinked == unlink_ao(st.deques, st.cache[k])
                  IN  IF is_panic(unlinked) THEN PANIC
                      ELSE invalidate_loop(
                             [cache |-> HashMap_remove(st.cache, k),
                              deques |-> unlinked,
                              invalidated |-> st.invalidated + 1],
                             keys_to_invalidate \ {k})
             ELSE invalidate_loop(st, keys_to_invalidate \ {k})

\* invalidate_entries_if without the final entry_count -= invalidated
invalidate_entries_if_uncounted(self, predicate) ==
    LET keys_to_invalidate ==
            {k \in DOMAIN self.cache : <<k, self.cache[k].value>> \in predicate}
        st == invalidate_loop([cache |-> self.cache, deques |-> self.deques,
                               invalidated |-> 0],
                              keys_to_invalidate)
    IN  IF is_panic(st) THEN PANIC
        ELSE [self |-> [self EXCEPT !.cache = st.cache,
                                    !.deques = st.deques],
              first_call |-> "cache.iter", ret |-> None]

\* invalidate_entries_if collecting the keys the predicate does not hold of
invalidate_entries_if_inverted(self, predicate) ==
    LET keys_to_invalidate ==
            {k \in DOMAIN self.cache : <<k, self.cache[k].value>> \notin predicate}
        st == invalidate_loop([cache |-> self.cache, deques |-> self.deques,
                               invalidated |-> 0],
                              keys_to_invalidate)
    IN  IF is_panic(st) THEN PANIC
        ELSE [self |-> [self EXCEPT !.cache = st.cache,
                                    !.deques = st.deques,
                                    !.entry_count = @ - st.invalidated],
              first_call |-> "cache.iter", ret |-> None]

\* Cache::invalidate_entries_if; the predicate is the set of <<key, value>>
\* it holds of
invalidate_entries_if(self, predicate) ==
    LET keys_to_invalidate ==
            {k \in DOMAIN self.cache : <<k, self.cache[k].value>> \in predicate}
        st == invalidate_loop([cache |-> self.cache, deques |-> self.deques,
                               invalidated |-> 0],
                              keys_to_invalidate)
    IN  IF is_panic(st) THEN PANIC
        ELSE [self |-> [self EXCEPT !.cache = st.cache,
                                    !.deques = st.deques,
                                    !.entry_count = @ - st.invalidated],
              first_call |-> "cache.iter", ret |-> None]

\* Cache::invalidate_entries_if when the destructor of a value panics in
\* the removal loop: the keys of dropped, a part of keys_to_invalidate that
\* is not empty, are removed from the table and their nodes unlinked, the
\* last of them being the entry whose drop panics at the end of its
\* iteration; the call unwinds to the caller before entry_count -= invalidated
invalidate_entries_if_unwound(self, predicate, dropped) ==
    LET st == invalidate_loop([cache |-> self.cache, deques |-> self.deques,
                               invalidated |-> 0],
                              dropped)
    IN  IF is_panic(st) THEN PANIC
        ELSE [self |-> [self EXCEPT !.cache = st.cache,
                                    !.deques = st.deques],
              first_call |-> "cache.iter", ret |-> None]

\* HashMap::iter: the entries of the table in the order the iterator of the
\* table visits them, each once
RECURSIVE HashMap_iter(_)
HashMap_iter(map) ==
    IF DOMAIN map = {} THEN <<>>
    ELSE LET k == CHOOSE x \in DOMAIN map : TRUE
         IN  <<[key |-> k, entry |-> map[k]]>> \o HashMap_iter(HashMap_remove(map, k))

\* Iter::new
Iter_new(self, hash_map_iter) == [iter |-> hash_map_iter]

\* Iter::next
Iter_next(it) ==
    IF it.iter # <<>>
    THEN [it |-> [iter |-> Tail(it.iter)],
          ret |-> Some(<<Head(it.iter).key, Head(it.iter).entry.value>>)]
    ELSE [it |-> it, ret |-> None]

\* the items an iterator yields until it yields None
RECURSIVE collect(_)
collect(it) ==
    LET step == Iter_next(it)
    IN  IF is_some(step.ret) THEN <<unwrap(step.ret)>> \o collect(step.it)
        ELSE <<>>

\* Cache::iter that counts every entry it yields as a read
iter_as_reads(self) ==
    LET yielded == collect(Iter_new(self, HashMap_iter(self.cache)))
        RECURSIVE counted(_, _)
        counted(freq, i) ==
            IF i > Len(yielded) THEN freq
            ELSE counted(increment(freq, hash(yielded[i][1])), i + 1)
    IN  [self |-> [self EXCEPT !.frequency_sketch = counted(@, 1)],
         first_call |-> "cache.iter", ret |-> yielded]

\* Cache::iter, with the iterator it returns run to its end: the sequence of
\* the pairs Iter::next yields
iter(self) ==
    [self |-> self,
     first_call |-> "cache.iter",
     ret |-> collect(Iter_new(self, HashMap_iter(self.cache)))]

----------------------------------------------------------------------------
(* The state machine *)

\* the cache record of the current state
Self ==
    [max_capacity |-> max_capacity,
     entry_count |-> entry_count,
     cache |-> cache,
     deques |-> deques,
     frequency_sketch |-> frequency_sketch,
     frequency_sketch_enabled |-> frequency_sketch_enabled]

\* the capacities a cache is built with: CacheBuilder without and with
\* max_capacity
Capacities == {None} \cup {Some(u64(n)) : n \in 0 .. MaxCapacity}

\* the predicates invalidate_entries_if is called with
Predicates ==
    {Keys \X {v} : v \in {"alice", "bob"}}
    \cup {Keys \X {"alice", "alex"}}
    \cup {{k} \X Values : k \in {"b", "c"}}
    \cup {Keys \X Values}

NoCall ==
    [op |-> "new", key |-> "", value |-> "", kind |-> "", ret |-> None,
     first_call |-> ""]

Init ==
    /\ max_capacity \in Capacities
    /\ entry_count = with_everything(max_capacity).entry_count
    /\ cache = with_everything(max_capacity).cache
    /\ deques = with_everything(max_capacity).deques
    /\ frequency_sketch = with_everything(max_capacity).frequency_sketch
    /\ frequency_sketch_enabled = with_everything(max_capacity).frequency_sketch_enabled
    /\ panicked = FALSE
    /\ last = NoCall

\* the call returns r: the fields take the values of r.self, and last keeps
\* the call, what it returned and the first call the method made; a panic
\* leaves the fields as they were and stops the run
Return(r, call) ==
    IF is_panic(r)
    THEN /\ panicked' = TRUE
         /\ last' = [op |-> call.op, key |-> call.key, value |-> call.value,
                     kind |-> "panic", ret |-> call.ret, first_call |-> ""]
         /\ UNCHANGED <<max_capacity, entry_count, cache, deques,
                        frequency_sketch, frequency_sketch_enabled>>
    ELSE /\ max_capacity' = r.self.max_capacity
         /\ entry_count' = r.self.entry_count
         /\ cache' = r.self.cache
         /\ deques' = r.self.deques
         /\ frequency_sketch' = r.self.frequency_sketch
         /\ frequency_sketch_enabled' = r.self.frequency_sketch_enabled
         /\ panicked' = FALSE
         /\ last' = [op |-> call.op, key |-> call.key, value |-> call.value,
                     kind |-> call.kind, ret |-> r.ret,
                     first_call |-> r.first_call]

\* which branch an insert takes, from the state it is called in
InsertKind(self, key) ==
    LET swept == evict_lru_entries(self)
    IN  IF is_panic(swept) THEN "panic"
        ELSE IF key \in DOMAIN swept.cache THEN "update"
        ELSE IF has_enough_capacity(swept, 1, swept.entry_count) THEN "free"
        ELSE "full"

\* whether a removing call found something to remove, from the keys it is
\* to remove in the state it is called in
RemovalKind(doomed) == IF doomed = {} THEN "miss" ELSE "hit"

Insert(key, value) ==
    /\ ~panicked
    /\ Return(insert(Self, key, value),
              [op |-> "insert", key |-> key, value |-> value,
               kind |-> InsertKind(Self, key), ret |-> None])

Get(key) ==
    /\ ~panicked
    /\ Return(get(Self, key),
              [op |-> "get", key |-> key, value |-> "", kind |-> "", ret |-> None])

ContainsKey(key) ==
    /\ ~panicked
    /\ Return(contains_key(Self, key),
              [op |-> "contains_key", key |-> key, value |-> "", kind |-> "",
               ret |-> None])

Remove(key) ==
    /\ ~panicked
    /\ Return(remove(Self, key),
              [op |-> "remove", key |-> key, value |-> "", kind |-> "", ret |-> None])

Invalidate(key) ==
    /\ ~panicked
    /\ Return(invalidate(Self, key),
              [op |-> "invalidate", key |-> key, value |-> "",
               kind |-> RemovalKind({key} \cap DOMAIN cache), ret |-> None])

InvalidateAll ==
    /\ ~panicked
    /\ Return(invalidate_all(Self),
              [op |-> "invalidate_all", key |-> "", value |-> "",
               kind |-> RemovalKind(DOMAIN cache), ret |-> None])

InvalidateEntriesIf(predicate) ==
    /\ ~panicked
    /\ Return(invalidate_entries_if(Self, predicate),
              [op |-> "invalidate_entries_if", key |-> "", value |-> "",
               kind |-> RemovalKind({k \in DOMAIN cache :
                                       <<k, cache[k].value>> \in predicate}),
               ret |-> None])

IterAll ==
    /\ ~panicked
    /\ Return(iter(Self),
              [op |-> "iter", key |-> "", value |-> "", kind |-> "", ret |-> None])

Next ==
    \/ \E key \in Keys : \E value \in ValuesOf(key) : Insert(key, value)
    \/ \E key \in Keys : Get(key)
    \/ \E key \in Keys : ContainsKey(key)
    \/ \E key \in Keys : Remove(key)
    \/ \E key \in Keys : Invalidate(key)
    \/ InvalidateAll
    \/ \E predicate \in Predicates : InvalidateEntriesIf(predicate)
    \/ IterAll

Spec == Init /\ [][Next]_vars

\* invalidate_all on a cache holding a value whose destructor panics: the
\* caller catches the unwinding and goes on using the cache
InvalidateAllUnwinds ==
    /\ ~panicked
    /\ DOMAIN cache # {}
    /\ Return([self |-> invalidate_all_unwound(Self), ret |-> None,
               first_call |-> "cache.capacity"],
              [op |-> "invalidate_all", key |-> "", value |-> "",
               kind |-> "unwound", ret |-> None])

NextDrop ==
    \/ Next
    \/ InvalidateAllUnwinds

\* the cache used with values whose destructors may panic
SpecDrop == Init /\ [][NextDrop]_vars

\* how far entry_count is let run ahead of the entries in the table
MaxStale == 1

\* invalidate_entries_if on a cache holding a matching value whose
\* destructor panics: the caller catches the unwinding and goes on using the
\* cache.  The table visits its keys in any order, so any part of the
\* matching keys may be removed when the panic comes
InvalidateEntriesIfUnwinds ==
    /\ ~panicked
    /\ \E predicate \in Predicates :
          LET keys_to_invalidate ==
                  {k \in DOMAIN cache : <<k, cache[k].value>> \in predicate}
          IN  \E dropped \in SUBSET keys_to_invalidate \ {{}} :
              /\ entry_count - Cardinality(DOMAIN cache \ dropped) <= MaxStale
              /\ Return(invalidate_entries_if_unwound(Self, predicate, dropped),
                        [op |-> "invalidate_entries_if", key |-> "",
                         value |-> "", kind |-> "unwound", ret |-> None])

NextDropIf ==
    \/ NextDrop
    \/ InvalidateEntriesIfUnwinds

\* the cache used with values whose destructors may panic in invalidate_all
\* and in invalidate_entries_if
SpecDropIf == Init /\ [][NextDropIf]_vars

\* the largest of the small capacities the sketch is sized for
MaxSmallCapacity == 40

\* the capacities the sketch is sized for: the small ones, and the ones
\* around the powers of two, the two ceilings and the widths of the integers
SizedCapacities ==
    {u64(n) : n \in 0 .. MaxSmallCapacity}
    \cup {u64(n) : n \in {127, 128, 129, 255, 256, 257, 65535, 65536, 65537,
                          131071, 131072, 131073,
                          MaxTableLen32 - 1, MaxTableLen32, MaxTableLen32 + 1,
                          134217728,
                          MaxTableLen - 1, MaxTableLen, MaxTableLen + 1,
                          2147483647}}
    \cup {[hi |-> 0, mid |-> 2, lo |-> 0], u32_MAX,
          [hi |-> 0, mid |-> 4, lo |-> 0], u64_MAX}

\* Cache::new(max_capacity) on a build of either pointer width
InitSized ==
    /\ max_capacity \in {Some(n) : n \in SizedCapacities}
    /\ entry_count = with_everything(max_capacity).entry_count
    /\ cache = with_everything(max_capacity).cache
    /\ deques = with_everything(max_capacity).deques
    /\ frequency_sketch
         \in {[with_everything(max_capacity).frequency_sketch
                 EXCEPT !.pointer_width = w] : w \in PointerWidths}
    /\ frequency_sketch_enabled = with_everything(max_capacity).frequency_sketch_enabled
    /\ panicked = FALSE
    /\ last = NoCall

EnableFrequencySketchForTesting ==
    /\ ~panicked
    /\ Return([self |-> enable_frequency_sketch_for_testing(Self), ret |-> None,
               first_call |-> "do_enable_frequency_sketch"],
              [op |-> "enable_frequency_sketch_for_testing", key |-> "",
               value |-> "", kind |-> "", ret |-> None])

NextSized == EnableFrequencySketchForTesting

\* the sketch enabled on caches of the capacities of SizedCapacities
SpecSized == InitSized /\ [][NextSized]_vars

\* the smallest capacity of the caches that fill by halves
LazyCapacity == 4

\* capacities whose half is more than one entry, an even and an odd one
LazyCapacities == {Some(u64(n)) : n \in LazyCapacity .. LazyCapacity + 1}

\* Cache::new(max_capacity) with room for every key
InitLazy ==
    /\ max_capacity \in LazyCapacities
    /\ entry_count = with_everything(max_capacity).entry_count
    /\ cache = with_everything(max_capacity).cache
    /\ deques = with_everything(max_capacity).deques
    /\ frequency_sketch = with_everything(max_capacity).frequency_sketch
    /\ frequency_sketch_enabled = with_everything(max_capacity).frequency_sketch_enabled
    /\ panicked = FALSE
    /\ last = NoCall

\* the calls of Next on caches that are enabled some inserts after the first
SpecLazy == InitLazy /\ [][Next]_vars

\* how far above one batch the swept caches are filled
MaxOvershoot == 3

\* the numbers of entries of the swept caches: a few, and one batch and more
SweepSizes ==
    (0 .. MaxOvershoot)
    \cup (EVICTION_BATCH_SIZE .. EVICTION_BATCH_SIZE + MaxOvershoot)

\* the key of the i-th entry of a swept cache
SweepKey(i) == ToString(i)

\* a cache of n entries linked in probation in the order of their numbers,
\* built without regard to its limit; with stale, the head of probation is a
\* node whose key is not in the hash table; entry_count is n + uncounted
Filled(max_cap, n, stale, uncounted) ==
    LET linked == [i \in 1 .. n |->
                     DeqNode_new(i, KeyHashDate_new(SweepKey(i), hash(SweepKey(i))))]
        head == IF stale
                THEN <<DeqNode_new(n + 1, KeyHashDate_new("stale", hash("stale")))>>
                ELSE <<>>
        entries == {<<SweepKey(i), i>> : i \in 1 .. n}
    IN  [with_everything(max_cap) EXCEPT
            !.entry_count = n + uncounted,
            !.cache = [k \in {e[1] : e \in entries} |->
                         LET e == CHOOSE e \in entries : e[1] = k
                         IN  [value |-> "cindy",
                              access_order_q_node |->
                                  Some([node |-> e[2], tag |-> "MainProbation"])]],
            !.deques.probation.nodes = head \o linked]

\* the caches handed to the sweep, within their limit and above it
InitSweep ==
    \E max_cap \in Capacities : \E n \in SweepSizes :
    \E stale \in BOOLEAN : \E uncounted \in 0 .. 1 :
        LET self == Filled(max_cap, n, stale, uncounted)
        IN  /\ max_capacity = self.max_capacity
            /\ entry_count = self.entry_count
            /\ cache = self.cache
            /\ deques = self.deques
            /\ frequency_sketch = self.frequency_sketch
            /\ frequency_sketch_enabled = self.frequency_sketch_enabled
            /\ panicked = FALSE
            /\ last = NoCall

\* the calls that do nothing but the sweep and a lookup
NextSweep == \E key \in Keys : ContainsKey(key)

\* evict_lru_entries on caches of every filling, one public call after another
SpecSweep == InitSweep /\ [][NextSweep]_vars

\* a sample threshold that lets a counter reach its limit before the
\* counters are halved
LongSampleThreshold == 17

\* Cache::new(1) with a sketch of either sample threshold
InitSketch ==
    /\ max_capacity = Some(u64(1))
    /\ entry_count = with_everything(max_capacity).entry_count
    /\ cache = with_everything(max_capacity).cache
    /\ deques = with_everything(max_capacity).deques
    /\ frequency_sketch
         \in {[with_everything(max_capacity).frequency_sketch
                 EXCEPT !.sample_size = t] :
                   t \in {SampleThreshold, LongSampleThreshold}}
    /\ frequency_sketch_enabled = with_everything(max_capacity).frequency_sketch_enabled
    /\ panicked = FALSE
    /\ last = NoCall

\* the calls that read the sketch and write to it
NextSketch ==
    \/ \E key \in Keys : \E value \in ValuesOf(key) : Insert(key, value)
    \/ \E key \in Keys : Get(key)

\* the sketch of a cache of one entry under inserts and gets
SpecSketch == InitSketch /\ [][NextSketch]_vars

----------------------------------------------------------------------------
(* Notions the properties below are stated in *)

\* the keys of probation from head (least recently used) to tail
ProbationKeys ==
    [i \in 1 .. Len(deques.probation.nodes) |->
        deques.probation.nodes[i].element.key]

\* the frequency estimate of a key in the current sketch
FreqOf(key) == frequency(frequency_sketch, hash(key))

\* the cache has a limit of at least one entry and no room for one more
Full ==
    /\ is_some(max_capacity)
    /\ u64_le(u64(1), unwrap(max_capacity))
    /\ ~u64_le(u64(entry_count + 1), unwrap(max_capacity))

\* the cache has room for one more entry
HasRoom ==
    \/ ~is_some(max_capacity)
    \/ u64_le(u64(entry_count + 1), unwrap(max_capacity))

\* the step is a call of the public method op that returned; last' holds
\* its arguments and its return value
Called(op) == ~panicked' /\ last'.op = op

\* no panic fires in a reachable state
NoPanic == ~panicked

----------------------------------------------------------------------------
(* C1: whenever a public operation has returned, a cache built with        *)
(* max_capacity = C holds at most C entries: entry_count <= C.             *)
C1_EntryCountWithinCapacity ==
    is_some(max_capacity) => u64_le(u64(entry_count), unwrap(max_capacity))

\* an insert into a full cache of capacity 2 has returned
C1_Witness ==
    /\ max_capacity = Some(u64(2))
    /\ entry_count = 2
    /\ last.op = "insert"
    /\ last.kind = "full"

(* C2: between public operations entry_count is the number of keys of the  *)
(* hash table and the number of nodes of probation, and the window and     *)
(* protected deques are empty.                                             *)
C2_CountsAgree ==
    /\ entry_count = Cardinality(DOMAIN cache)
    /\ entry_count = Len(deques.probation.nodes)
    /\ deques.window.nodes = <<>>
    /\ deques.protected.nodes = <<>>

\* invalidate_entries_if has removed some and kept some entries
C2_Witness ==
    /\ last.op = "invalidate_entries_if"
    /\ entry_count = 1
    /\ max_capacity = None

(* C3: a fresh insert into a full cache (max_capacity >= 1) is admitted    *)
(* exactly when probation has a head to take as the victim and the         *)
(* candidate's frequency is strictly greater than that victim's; with      *)
(* equal frequencies it is rejected.                                       *)
C3_AdmitIffStrictlyMoreFrequent ==
    [][(Called("insert") /\ last'.key \notin DOMAIN cache /\ Full)
         => (last'.key \in DOMAIN cache'
             <=> /\ Len(ProbationKeys) >= 1
                 /\ FreqOf(last'.key) > FreqOf(ProbationKeys[1]))]_vars

\* an insert into a full cache was rejected although the candidate is as
\* frequent as the head of probation, and both were read before
C3_Witness ==
    /\ last.op = "insert"
    /\ last.kind = "full"
    /\ last.key \notin DOMAIN cache
    /\ Len(ProbationKeys) >= 1
    /\ FreqOf(last.key) = FreqOf(ProbationKeys[1])
    /\ FreqOf(last.key) > 0

(* C4: when a fresh insert is admitted into a full cache, the victim, the   *)
(* head of probation, leaves the hash table and probation, the candidate   *)
(* is linked at the tail of probation with the inserted value, entry_count *)
(* is the same after the insert as before it, and no other entry changes.  *)
C4_AdmittedInsertEvictsHead ==
    [][(/\ Called("insert")
        /\ last'.key \notin DOMAIN cache
        /\ Full
        /\ last'.key \in DOMAIN cache')
       => /\ Len(ProbationKeys) >= 1
          /\ DOMAIN cache' = (DOMAIN cache \ {ProbationKeys[1]}) \cup {last'.key}
          /\ ProbationKeys' = Append(Tail(ProbationKeys), last'.key)
          /\ entry_count' = entry_count
          /\ cache'[last'.key].value = last'.value
          /\ \A k \in DOMAIN cache \ {ProbationKeys[1]} : cache'[k] = cache[k]]_vars

\* an insert into a full cache of two entries was admitted: the candidate
\* is the tail of probation
C4_Witness ==
    /\ last.op = "insert"
    /\ last.kind = "full"
    /\ last.key \in DOMAIN cache
    /\ entry_count = 2
    /\ ProbationKeys[2] = last.key

(* C5: when a fresh insert into a full cache is rejected by admission (the *)
(* candidate is not more frequent than the head of probation), the         *)
(* candidate is absent afterwards and the hash table, the deques,          *)
(* entry_count and the frequency sketch are as before the insert;          *)
(* contains_key and get of the candidate report it absent.                 *)
C5_RejectedInsertChangesNothing ==
    [][(/\ Called("insert")
        /\ last'.key \notin DOMAIN cache
        /\ Full
        /\ \/ Len(ProbationKeys) = 0
           \/ FreqOf(last'.key) <= FreqOf(ProbationKeys[1]))
       => /\ last'.key \notin DOMAIN cache'
          /\ UNCHANGED <<max_capacity, entry_count, cache, deques,
                         frequency_sketch, frequency_sketch_enabled>>
          /\ contains_key(Self', last'.key).ret = FALSE
          /\ get(Self', last'.key).ret = None]_vars

\* an insert of a key that was never read was rejected by a full cache of
\* two entries
C5_Witness ==
    /\ last.op = "insert"
    /\ last.kind = "full"
    /\ last.key \notin DOMAIN cache
    /\ entry_count = 2
    /\ FreqOf(last.key) = 0

(* C6: a fresh insert made while there is room (entry_count + 1 <=         *)
(* max_capacity, or no max_capacity) succeeds whatever the frequencies:    *)
(* the key is present with the inserted value at the tail of probation,    *)
(* entry_count has grown by 1 and every other entry is as before.          *)
C6_InsertWithRoomSucceeds ==
    [][(/\ Called("insert")
        /\ last'.key \notin DOMAIN cache
        /\ HasRoom)
       => /\ DOMAIN cache' = DOMAIN cache \cup {last'.key}
          /\ cache'[last'.key].value = last'.value
          /\ ProbationKeys' = Append(ProbationKeys, last'.key)
          /\ entry_count' = entry_count + 1
          /\ \A k \in DOMAIN cache : cache'[k] = cache[k]]_vars

\* an insert has filled a cache of capacity 2 again after an entry was
\* removed from it: the new node has the address the removed node had
C6_Witness ==
    /\ last.op = "insert"
    /\ last.kind = "free"
    /\ max_capacity = Some(u64(2))
    /\ entry_count = 2
    /\ ProbationKeys[2] = last.key
    /\ deques.probation.nodes[2].id < deques.probation.nodes[1].id

(* C7: insert(k, v) of a present key is an update: it succeeds also when   *)
(* the cache is full, the value of k becomes v, the entry keeps its deque  *)
(* node, which moves to the tail of probation, and the present keys, the   *)
(* other entries, entry_count and the frequency sketch are unchanged.      *)
C7_UpdateKeepsNodeAndCount ==
    [][(Called("insert") /\ last'.key \in DOMAIN cache)
       => /\ DOMAIN cache' = DOMAIN cache
          /\ cache'[last'.key].value = last'.value
          /\ is_some(cache[last'.key].access_order_q_node)
          /\ cache'[last'.key].access_order_q_node
                = cache[last'.key].access_order_q_node
          /\ ProbationKeys'
                = Append(SelectSeq(ProbationKeys, LAMBDA k : k # last'.key),
                         last'.key)
          /\ LiveNodes(deques') = LiveNodes(deques)
          /\ \A k \in DOMAIN cache \ {last'.key} : cache'[k] = cache[k]
          /\ entry_count' = entry_count
          /\ frequency_sketch' = frequency_sketch
          /\ frequency_sketch_enabled' = frequency_sketch_enabled]_vars

\* the older entry of a full cache of two entries was updated to a new
\* value: its node, the older one, is now the tail of probation
C7_Witness ==
    /\ last.op = "insert"
    /\ last.kind = "update"
    /\ max_capacity = Some(u64(2))
    /\ entry_count = 2
    /\ ProbationKeys[2] = last.key
    /\ cache[last.key].value = "alex"
    /\ deques.probation.nodes[2].id < deques.probation.nodes[1].id

(* C8: a key that is in the cache stays in it with its value until a       *)
(* remove or invalidate of that key, an invalidate_entries_if, an          *)
(* invalidate_all or an admitted insert that takes it, the head of         *)
(* probation, as its victim; a key enters the cache and its value changes  *)
(* only by an insert of that key, to the inserted value; and get of a      *)
(* present key returns the value stored for it.                            *)
C8_PresentUntilRemoved ==
    [][\A k \in Keys :
        /\ (k \in DOMAIN cache /\ k \notin DOMAIN cache')
           => \/ last'.op \in {"remove", "invalidate"} /\ last'.key = k
              \/ last'.op \in {"invalidate_all", "invalidate_entries_if"}
              \/ /\ last'.op = "insert"
                 /\ last'.key # k
                 /\ last'.key \notin DOMAIN cache
                 /\ last'.key \in DOMAIN cache'
                 /\ Full
                 /\ ProbationKeys[1] = k
        /\ (k \in DOMAIN cache'
              /\ (k \notin DOMAIN cache \/ cache'[k].value # cache[k].value))
           => /\ last'.op = "insert"
              /\ last'.key = k
              /\ cache'[k].value = last'.value
        /\ (Called("get") /\ last'.key = k /\ k \in DOMAIN cache)
           => last'.ret = Some(cache[k].value)]_vars

\* a get of an absent key has returned None on a full cache of two entries,
\* which are both still there
C8_Witness ==
    /\ last.op = "get"
    /\ last.ret = None
    /\ max_capacity = Some(u64(2))
    /\ Cardinality(DOMAIN cache) = 2

(* C9: in every reachable state and for every key k, get(k) called right   *)
(* after contains_key(k) returns Some exactly when contains_key(k)         *)
(* returned true.                                                          *)
C9_GetAgreesWithContainsKey ==
    \A k \in Keys :
        LET asked == contains_key(Self, k)
        IN  /\ ~is_panic(asked)
            /\ LET got == get(asked.self, k)
               IN  /\ ~is_panic(got)
                   /\ is_some(got.ret) <=> asked.ret

\* contains_key has returned true for one key of a cache that holds a
\* second key and lacks a third
C9_Witness ==
    /\ last.op = "contains_key"
    /\ last.ret = TRUE
    /\ last.key \in DOMAIN cache
    /\ Cardinality(DOMAIN cache) = 2

(* C10: contains_key(k), for present and absent k alike, leaves the        *)
(* frequency sketch, and so the frequency of every key, and the order of   *)
(* probation as they were.                                                 *)
C10_ContainsKeyIsNotARead ==
    [][Called("contains_key")
       => /\ frequency_sketch' = frequency_sketch
          /\ \A k \in Keys : FreqOf(k)' = FreqOf(k)
          /\ deques' = deques]_vars

\* contains_key has returned true for the head of probation of a cache of
\* two entries with the sketch enabled: the key is still the head
C10_Witness ==
    /\ last.op = "contains_key"
    /\ last.ret = TRUE
    /\ frequency_sketch_enabled
    /\ entry_count = 2
    /\ ProbationKeys[1] = last.key
    /\ FreqOf(last.key) > 0

(* C11: remove(k) on a present key returns the stored value, makes k       *)
(* absent, unlinks its node and decrements entry_count by exactly 1, and   *)
(* leaves every other entry, with its value and node, and the relative     *)
(* order of the other keys in probation as they were; remove(k) on an      *)
(* absent key returns None and leaves entry_count, the entries and the     *)
(* deques unchanged.                                                       *)
C11_RemoveTakesExactlyOne ==
    [][Called("remove")
       => LET k == last'.key
          IN  IF k \in DOMAIN cache
              THEN /\ last'.ret = Some(cache[k].value)
                   /\ DOMAIN cache' = DOMAIN cache \ {k}
                   /\ \A j \in DOMAIN cache' : cache'[j] = cache[j]
                   /\ unwrap(cache[k].access_order_q_node).node \notin LiveNodes(deques')
                   /\ ProbationKeys' = SelectSeq(ProbationKeys, LAMBDA x : x # k)
                   /\ deques'.window = deques.window
                   /\ deques'.protected = deques.protected
                   /\ entry_count' = entry_count - 1
              ELSE /\ last'.ret = None
                   /\ entry_count' = entry_count
                   /\ cache' = cache
                   /\ deques' = deques]_vars

\* "a" was removed from a cache that held "a" and "b": "alice" was returned
\* and "b" is the only entry left
C11_Witness ==
    /\ last.op = "remove"
    /\ last.key = "a"
    /\ last.ret = Some("alice")
    /\ DOMAIN cache = {"b"}
    /\ ProbationKeys = <<"b">>
    /\ entry_count = 1

(* C12: invalidate(k) is remove(k) with the value discarded: from every    *)
(* state and for every key, present or absent, the cache after             *)
(* invalidate(k) (entries, deques, entry_count, sketch and its flag)       *)
(* equals the cache after remove(k), and invalidate(k) returns nothing.    *)
C12_InvalidateIsRemove ==
    \A k \in Keys :
        LET invalidated == invalidate(Self, k)
            removed == remove(Self, k)
        IN  /\ ~is_panic(invalidated)
            /\ ~is_panic(removed)
            /\ invalidated.self = removed.self
            /\ invalidated.ret = None
            /\ k \notin DOMAIN cache => invalidated.self = Self

\* "a" was invalidated in a cache that held "a" and "b"
C12_Witness ==
    /\ last.op = "invalidate"
    /\ last.kind = "hit"
    /\ last.key = "a"
    /\ DOMAIN cache = {"b"}
    /\ ProbationKeys = <<"b">>
    /\ entry_count = 1

\* the three deques hold no node
DequesEmpty ==
    /\ deques.window.nodes = <<>>
    /\ deques.probation.nodes = <<>>
    /\ deques.protected.nodes = <<>>

\* what an invalidate_all that has just returned has left: no entry, no
\* node, entry_count 0, and every get a miss
EmptiedByInvalidateAll ==
    (~panicked /\ last.op = "invalidate_all")
    => /\ entry_count = 0
       /\ DOMAIN cache = {}
       /\ DequesEmpty
       /\ \A k \in Keys : LET got == get(Self, k)
                           IN  ~is_panic(got) /\ got.ret = None

\* a key that is absent stays absent over every call but an insert of it
AbsentUntilInserted ==
    \A k \in Keys :
        (k \notin DOMAIN cache /\ ~(Called("insert") /\ last'.key = k))
        => k \notin DOMAIN cache'

\* insert(k, v) on the empty cache self stores k, and get(k) reads v
InsertIsReadable(self, k, v) ==
    LET inserted == insert(self, k, v)
    IN  /\ ~is_panic(inserted)
        /\ k \in DOMAIN inserted.self.cache
        /\ inserted.self.cache[k].value = v
        /\ inserted.self.entry_count = 1
        /\ LET got == get(inserted.self, k)
           IN  ~is_panic(got) /\ got.ret = Some(v)

(* C13, as stated: after invalidate_all entry_count is 0, the hash table   *)
(* and the three deques are empty, get of any key returns None until that  *)
(* key is inserted again, and a key inserted afterwards is stored and      *)
(* readable. This fails for a cache built with max_capacity 0, where the   *)
(* insert after invalidate_all is rejected like every other insert.        *)
C13_Original ==
    /\ [](/\ EmptiedByInvalidateAll
          /\ (~panicked /\ last.op = "invalidate_all")
              => \A k \in Keys : \A v \in ValuesOf(k) :
                     InsertIsReadable(Self, k, v))
    /\ [][AbsentUntilInserted]_vars

(* C13: after invalidate_all entry_count is 0, the hash table and the      *)
(* three deques are empty, and get of any key returns None until that key  *)
(* is inserted again; unless max_capacity is 0, a key inserted afterwards  *)
(* is stored and readable.                                                 *)
C13_InvalidateAllEmpties ==
    /\ [](/\ EmptiedByInvalidateAll
          /\ (~panicked /\ last.op = "invalidate_all"
                        /\ max_capacity # Some(u64(0)))
              => \A k \in Keys : \A v \in ValuesOf(k) :
                     InsertIsReadable(Self, k, v))
    /\ [][AbsentUntilInserted]_vars

\* invalidate_all has emptied a cache of max_capacity 2 that held entries
C13_Witness ==
    /\ last.op = "invalidate_all"
    /\ last.kind = "hit"
    /\ max_capacity = Some(u64(2))
    /\ entry_count = 0
    /\ DOMAIN cache = {}
    /\ DequesEmpty

(* C14: invalidate_all has put the cache into the empty state (the table   *)
(* swapped for an empty one, the deques cleared, entry_count 0) before any *)
(* value destructor runs: when a destructor panics while the old table is  *)
(* dropped, the cache the caller is left with is empty, the invariants on  *)
(* entry_count hold, the sketch is untouched, and an insert that follows   *)
(* stores its key and the key is read back.                                *)
C14_InvalidateAllUnwindsEmpty ==
    [][(Called("invalidate_all") /\ last'.kind = "unwound")
       => /\ entry_count' = 0
          /\ DOMAIN cache' = {}
          /\ DequesEmpty'
          /\ C1_EntryCountWithinCapacity'
          /\ C2_CountsAgree'
          /\ max_capacity' = max_capacity
          /\ frequency_sketch' = frequency_sketch
          /\ frequency_sketch_enabled' = frequency_sketch_enabled
          /\ \A k \in Keys : \A v \in ValuesOf(k) :
                InsertIsReadable(Self', k, v)]_vars

\* a destructor has panicked in an invalidate_all of a cache that held
\* entries, and the cache is empty
C14_Witness ==
    /\ last.op = "invalidate_all"
    /\ last.kind = "unwound"
    /\ ~panicked
    /\ entry_count = 0
    /\ DOMAIN cache = {}
    /\ DequesEmpty

\* the keys of the probation deque of deqs from head to tail
KeysOfProbation(deqs) ==
    [i \in 1 .. Len(deqs.probation.nodes) |-> deqs.probation.nodes[i].element.key]

\* the keys whose entry the predicate holds of
Matching(predicate) ==
    {k \in DOMAIN cache : <<k, cache[k].value>> \in predicate}

(* C15: invalidate_entries_if(p) removes exactly the entries whose (key,   *)
(* value) satisfies p when the call starts: every matching key is absent   *)
(* afterwards, every other entry is present with its value and node and    *)
(* the other keys keep their relative order in probation, entry_count      *)
(* decreases by the number of entries removed, and an entry inserted after *)
(* the call is stored and read back even when p holds of it.               *)
C15_InvalidateEntriesIfExact ==
    \A p \in Predicates :
        LET done == invalidate_entries_if(Self, p)
        IN  /\ ~is_panic(done)
            /\ DOMAIN done.self.cache = DOMAIN cache \ Matching(p)
            /\ \A j \in DOMAIN done.self.cache : done.self.cache[j] = cache[j]
            /\ KeysOfProbation(done.self.deques)
                  = SelectSeq(ProbationKeys, LAMBDA x : x \notin Matching(p))
            /\ done.self.entry_count = entry_count - Cardinality(Matching(p))
            /\ \A k \in Keys : \A v \in ValuesOf(k) :
                  (/\ <<k, v>> \in p
                   /\ \/ k \in DOMAIN done.self.cache
                      \/ has_enough_capacity(done.self, 1, done.self.entry_count))
                  => LET inserted == insert(done.self, k, v)
                     IN  /\ ~is_panic(inserted)
                         /\ k \in DOMAIN inserted.self.cache
                         /\ inserted.self.cache[k].value = v
                         /\ get(inserted.self, k).ret = Some(v)

\* a predicate that held of "a" and not of "b" has been applied to a cache
\* holding both
C15_Witness ==
    /\ last.op = "invalidate_entries_if"
    /\ last.kind = "hit"
    /\ DOMAIN cache = {"b"}
    /\ cache["b"].value = "bob"
    /\ ProbationKeys = <<"b">>
    /\ entry_count = 1

\* the cache after n calls of get(key), one after the other
RECURSIVE after_gets(_, _, _)
after_gets(self, key, n) ==
    IF n = 0 THEN self
    ELSE LET got == get(self, key)
         IN  IF is_panic(got) THEN PANIC
             ELSE after_gets(got.self, key, n - 1)

\* the most get calls in a row the sketch of the model can count without
\* aging
MaxMisses == SampleThreshold

(* C16: eventual admission. With the sketch enabled, a full cache whose    *)
(* LRU head has frequency f < 15 and an absent key k whose counters are    *)
(* not those of the head: after n calls of get(k), all misses, with no     *)
(* aging and no other call in between, the frequency of k has grown by n;  *)
(* if it is then above f, insert(k, v) is admitted, evicts that head, and  *)
(* get(k) returns v; if it is not (too few get calls), the insert is       *)
(* rejected and the head stays.                                            *)
C16_EventualAdmission ==
    \A k \in Keys \ DOMAIN cache : \A n \in 0 .. MaxMisses :
        (/\ frequency_sketch_enabled
         /\ Full
         /\ ProbationKeys # <<>>
         /\ FreqOf(ProbationKeys[1]) < CounterMax
         /\ Probes(hash(k)) \cap Probes(hash(ProbationKeys[1])) = {}
         /\ frequency_sketch.size + n <= SampleThreshold)
        => LET head == ProbationKeys[1]
               warmed == after_gets(Self, k, n)
           IN  /\ ~is_panic(warmed)
               /\ warmed.cache = cache
               /\ frequency(warmed.frequency_sketch, hash(k)) = FreqOf(k) + n
               /\ frequency(warmed.frequency_sketch, hash(head)) = FreqOf(head)
               /\ \A v \in ValuesOf(k) :
                     LET inserted == insert(warmed, k, v)
                     IN  /\ ~is_panic(inserted)
                         /\ IF FreqOf(k) + n > FreqOf(head)
                            THEN /\ k \in DOMAIN inserted.self.cache
                                 /\ head \notin DOMAIN inserted.self.cache
                                 /\ DOMAIN inserted.self.cache
                                       = (DOMAIN cache \ {head}) \cup {k}
                                 /\ get(inserted.self, k).ret = Some(v)
                            ELSE /\ inserted.self.cache = cache
                                 /\ inserted.self.deques = warmed.deques

\* "c", asked for while the full cache held "a" and "b", has been inserted
\* and has taken the place of the head "a", which was never asked for
C16_Witness ==
    /\ last.op = "insert"
    /\ last.kind = "full"
    /\ last.key = "c"
    /\ max_capacity = Some(u64(2))
    /\ ProbationKeys = <<"b", "c">>
    /\ FreqOf("c") >= 1
    /\ FreqOf("a") = 0
    /\ cache["c"].value = "cindy"

\* the calls that remove entries at the request of the caller
Removals == {"remove", "invalidate", "invalidate_all", "invalidate_entries_if"}

(* C17: remove, invalidate, invalidate_all and invalidate_entries_if do    *)
(* not clear the popularity estimator: the sketch, the frequency of every  *)
(* key and the sketch-enabled flag are the same after the call as before,  *)
(* so a key that was invalidated keeps its frequency.                      *)
C17_RemovalsKeepTheSketch ==
    [][(~panicked' /\ last'.op \in Removals)
       => /\ frequency_sketch' = frequency_sketch
          /\ frequency_sketch_enabled' = frequency_sketch_enabled
          /\ \A k \in Keys : FreqOf(k)' = FreqOf(k)]_vars

\* invalidate_all has emptied a cache whose sketch had counted "a", and the
\* sketch still holds the count
C17_Witness ==
    /\ last.op = "invalidate_all"
    /\ last.kind = "hit"
    /\ frequency_sketch_enabled
    /\ FreqOf("a") >= 1
    /\ "a" \notin DOMAIN cache

(* C18: with max_capacity = 0 every insert is rejected without linking a   *)
(* node and the key it put into the hash table is removed again: after any *)
(* sequence of calls entry_count is 0, the cache holds no entry and no     *)
(* node, get of any key returns None, and an insert leaves the cache as it *)
(* was.                                                                    *)
C18_ZeroCapacityHoldsNothing ==
    max_capacity = Some(u64(0))
    => /\ entry_count = 0
       /\ DOMAIN cache = {}
       /\ DequesEmpty
       /\ \A k \in Keys :
             /\ LET got == get(Self, k)
                IN  ~is_panic(got) /\ got.ret = None
             /\ \A v \in ValuesOf(k) :
                   LET inserted == insert(Self, k, v)
                   IN  ~is_panic(inserted) /\ inserted.self = Self

\* an insert into a cache of max_capacity 0 has returned, and nothing is
\* stored
C18_Witness ==
    /\ max_capacity = Some(u64(0))
    /\ last.op = "insert"
    /\ last.kind = "full"
    /\ last.key = "a"
    /\ "a" \notin DOMAIN cache
    /\ entry_count = 0

\* the ceiling of the table length on the build of the current state
Ceiling ==
    IF frequency_sketch.pointer_width = 32 THEN MaxTableLen32 ELSE MaxTableLen

(* C19: after the frequency sketch is enabled for a cache of max_capacity  *)
(* n, its table length is the next power of two >= n, with a minimum of    *)
(* 128 and a maximum of 2^30 where pointers are 64 bits wide and 2^24      *)
(* where they are 32 bits wide: 0 -> 128, 128 -> 128, 2^16 -> 2^16,        *)
(* 2^16 + 1 -> 2^17, and every n above the ceiling, up to u64::MAX, -> the *)
(* ceiling.                                                                *)
C19_SketchTableLength ==
    (frequency_sketch_enabled /\ is_some(max_capacity))
    => LET n == unwrap(max_capacity)
           len == frequency_sketch.table_len
       IN  /\ ~panicked
           /\ \E e \in 0 .. 30 : len = 2 ^ e
           /\ MinTableLen <= len
           /\ len <= Ceiling
           /\ u64_le(n, u64(Ceiling))
                => /\ u64_le(n, u64(len))
                   /\ len = MinTableLen \/ ~u64_le(n, u64(len \div 2))
           /\ ~u64_le(n, u64(Ceiling)) => len = Ceiling
           /\ n = u64(0) => len = 128
           /\ n = u64(128) => len = 128
           /\ n = u64(65536) => len = 65536
           /\ n = u64(65537) => len = 131072
           /\ n = u64_MAX => len = Ceiling

\* the sketch has been enabled for max_capacity u64::MAX on a build with
\* 64-bit pointers, and its table has the length of the ceiling
C19_Witness ==
    /\ last.op = "enable_frequency_sketch_for_testing"
    /\ frequency_sketch_enabled
    /\ max_capacity = Some(u64_MAX)
    /\ frequency_sketch.pointer_width = 64
    /\ frequency_sketch.table_len = 1073741824

(* C20: iter() yields exactly the entries present in the hash table, each  *)
(* exactly once, with the value currently stored for its key; it does not  *)
(* touch the frequency sketch or the deques and runs no eviction sweep:    *)
(* every field of the cache is the same after iterating as before.         *)
C20_IterYieldsTheTable ==
    [][Called("iter")
       => /\ Len(last'.ret) = Cardinality(DOMAIN cache)
          /\ {last'.ret[i] : i \in 1 .. Len(last'.ret)}
                = {<<k, cache[k].value>> : k \in DOMAIN cache}
          /\ UNCHANGED <<max_capacity, entry_count, cache, deques,
                         frequency_sketch, frequency_sketch_enabled>>
          /\ \A k \in Keys : FreqOf(k)' = FreqOf(k)]_vars

\* an iterator over a cache of two entries with the sketch enabled has been
\* run to its end
C20_Witness ==
    /\ last.op = "iter"
    /\ Len(last.ret) = 2
    /\ entry_count = 2
    /\ frequency_sketch_enabled
    /\ DOMAIN cache = {"a", "b"}

\* the operations the spec lets begin with the eviction sweep
SweptOps ==
    {"get", "contains_key", "insert", "remove", "invalidate",
     "invalidate_all", "invalidate_entries_if"}

\* the ones among them whose code makes no call of the sweep
UnsweptOps == {"invalidate_all", "invalidate_entries_if"}

Without(keys, key) == SelectSeq(keys, LAMBDA x : x # key)

\* the key becomes the most recently accessed, the others keep their order
Touched(keys, key) == Without(keys, key) \o <<key>>

\* probation lists every present key once and nothing else
ListsPresentKeys ==
    /\ Len(ProbationKeys) = Cardinality(DOMAIN cache)
    /\ {ProbationKeys[i] : i \in 1 .. Len(ProbationKeys)} = DOMAIN cache

\* what one call does to the order of recency
AccessOrderStep ==
    ~panicked' =>
        LET order == ProbationKeys
            key == last'.key
        IN  CASE last'.op = "get" /\ is_some(last'.ret) ->
                    ProbationKeys' = Touched(order, key)
              [] last'.op = "insert" /\ last'.kind = "update" ->
                    ProbationKeys' = Touched(order, key)
              [] last'.op = "insert" /\ last'.kind = "free" ->
                    ProbationKeys' = order \o <<key>>
              [] last'.op = "insert" /\ last'.kind = "full" ->
                    IF key \in DOMAIN cache'
                    THEN \E n \in 1 .. Len(order) :
                            ProbationKeys'
                               = SubSeq(order, n + 1, Len(order)) \o <<key>>
                    ELSE ProbationKeys' = order
              [] last'.op \in Removals ->
                    ProbationKeys'
                       = SelectSeq(order, LAMBDA x : x \in DOMAIN cache')
              [] OTHER -> ProbationKeys' = order

(* C22: read from head to tail, the probation deque lists exactly the      *)
(* present keys from the least to the most recently accessed, where an     *)
(* access is a successful fresh insert, an updating insert or a get hit,   *)
(* and not a contains_key, an iteration or a get miss: a get hit or an     *)
(* update moves its key to the tail and keeps the order of the others, a   *)
(* fresh insert appends its key, the victims of an admitted insert are the *)
(* least recently accessed keys, a removal keeps the order of the keys     *)
(* left, and every other call leaves the order alone.                      *)
C22_ProbationIsRecencyOrder ==
    [](~panicked => ListsPresentKeys) /\ [][AccessOrderStep]_vars

\* a get hit has moved "a", inserted before "b", behind it
C22_Witness ==
    /\ last.op = "get"
    /\ last.key = "a"
    /\ is_some(last.ret)
    /\ ProbationKeys = <<"b", "a">>
    /\ unwrap(cache["a"].access_order_q_node).node
          < unwrap(cache["b"].access_order_q_node).node

(* C23: get(k) increments the frequency sketch for hash(k) whether k is    *)
(* found or not, which changes nothing while the sketch is not enabled;    *)
(* a get miss changes nothing else: the hash table with its keys and       *)
(* values, the order of probation and entry_count stay as they were.       *)
C23_GetCountsHitAndMiss ==
    [][Called("get")
       => /\ frequency_sketch'
                = increment(frequency_sketch, hash(last'.key))
          /\ ~frequency_sketch_enabled
                => frequency_sketch' = frequency_sketch
          /\ frequency_sketch_enabled' = frequency_sketch_enabled
          /\ ~is_some(last'.ret)
                => /\ last'.key \notin DOMAIN cache
                   /\ cache' = cache
                   /\ deques' = deques
                   /\ entry_count' = entry_count
                   /\ max_capacity' = max_capacity]_vars

\* a get of the absent "c" has been counted by the sketch of a cache that
\* holds other keys
C23_Witness ==
    /\ last.op = "get"
    /\ last.key = "c"
    /\ last.ret = None
    /\ frequency_sketch_enabled
    /\ frequency_sketch.size = 1
    /\ FreqOf("c") = 1
    /\ DOMAIN cache = {"a"}

\* half of the capacity, rounded down
HalfCapacity == as_int(u64_half(unwrap(max_capacity)))

\* the sketch counts nothing: every increment is a no-op, every frequency 0
SketchIsIdle ==
    /\ frequency_sketch.table_len = 0
    /\ \A k \in Keys :
          /\ increment(frequency_sketch, hash(k)) = frequency_sketch
          /\ FreqOf(k) = 0

\* the sketch counts: an increment is seen in the sketch
SketchIsActive ==
    /\ frequency_sketch.table_len > 0
    /\ \A k \in Keys : increment(frequency_sketch, hash(k)) # frequency_sketch

\* one call seen from a cache whose sketch is disabled
EnablementStep ==
    (~panicked' /\ ~frequency_sketch_enabled) =>
        /\ entry_count' < HalfCapacity' => ~frequency_sketch_enabled'
        /\ (Called("insert") /\ last'.kind = "free"
               /\ entry_count' >= HalfCapacity')
              => frequency_sketch_enabled'
        /\ frequency_sketch_enabled'
              => /\ Called("insert")
                 /\ last'.kind = "free"
                 /\ last'.key \in DOMAIN cache'
                 /\ entry_count' = entry_count + 1
                 /\ entry_count' >= HalfCapacity'
                 /\ entry_count' = HalfCapacity' \/ entry_count = 0

(* C24: the sketch is enabled lazily, at the half-full threshold: a cache  *)
(* that is disabled and holds entries holds fewer than max_capacity / 2    *)
(* (integer division), and while disabled its increments are no-ops and    *)
(* every frequency reads 0; it stays disabled while entry_count stays      *)
(* below the half, it is enabled by the successful insert on which         *)
(* entry_count reaches the half and by no other call, and once enabled it  *)
(* counts the reads that follow.                                           *)
C24_EnabledAtHalfFull ==
    /\ [](~frequency_sketch_enabled
            => /\ SketchIsIdle
               /\ entry_count > 0 => entry_count < HalfCapacity)
    /\ [](frequency_sketch_enabled => SketchIsActive)
    /\ [][EnablementStep]_vars

\* a cache of capacity 5 holds one entry and has served a get with its
\* sketch still disabled
C24_Witness ==
    /\ max_capacity = Some(u64(LazyCapacity + 1))
    /\ entry_count = 1
    /\ ~frequency_sketch_enabled
    /\ last.op = "get"
    /\ FreqOf(last.key) = 0

(* C25: frequency_sketch_enabled is monotonic: no call sets it back to     *)
(* false, not even a remove, invalidate_all or invalidate_entries_if that  *)
(* brings entry_count below half of the capacity, so it turns from false   *)
(* to true at most once; the table of the sketch is allocated on that one  *)
(* step and never again.                                                   *)
C25_EnabledStaysEnabled ==
    [][~panicked'
       => /\ frequency_sketch_enabled => frequency_sketch_enabled'
          /\ frequency_sketch.table_len # frequency_sketch.table_len'
                => (~frequency_sketch_enabled /\ frequency_sketch_enabled')
          /\ (~frequency_sketch_enabled /\ frequency_sketch_enabled')
                => frequency_sketch.table_len = 0]_vars

\* invalidate_entries_if has emptied an enabled cache of capacity 2, which
\* is still enabled with entry_count below the half
C25_Witness ==
    /\ last.op = "invalidate_entries_if"
    /\ last.kind = "hit"
    /\ max_capacity = Some(u64(2))
    /\ entry_count = 0
    /\ frequency_sketch_enabled
    /\ frequency_sketch.table_len > 0

\* the smaller of two numbers
Min(a, b) == IF a <= b THEN a ELSE b

\* entry_count, the hash table and probation agree
Consistent(self) ==
    /\ self.entry_count = Cardinality(DOMAIN self.cache)
    /\ self.entry_count = Len(self.deques.probation.nodes)

(* C26: one call of evict_lru_entries takes weights_to_evict to be         *)
(* entry_count - max_capacity, or 0 when that is negative or there is no   *)
(* limit; it takes nodes only from the head of probation, at most 100 of   *)
(* them, and removes from the hash table the entries of the nodes taken,   *)
(* at most min(100, weights_to_evict); it removes fewer only when          *)
(* probation has run empty or the 100 iterations are used up; it lowers    *)
(* entry_count by exactly the number of entries it removed from the hash   *)
(* table and changes nothing else; an overshoot of more than 100 is        *)
(* lowered by 100 by each public call until nothing is left of it.         *)
C26_SweepIsBatched ==
    /\ [](LET to_evict == weights_to_evict(Self)
              swept == evict_lru_entries(Self)
              before == deques.probation.nodes
              after == swept.deques.probation.nodes
              taken == Len(before) - Len(after)
              removed == DOMAIN cache \ DOMAIN swept.cache
              again == evict_lru_entries(swept)
          IN  /\ ~is_panic(swept)
              /\ to_evict
                   = IF max_capacity = None THEN 0
                     ELSE IF u64_le(unwrap(max_capacity), u64(entry_count))
                     THEN entry_count - as_int(unwrap(max_capacity))
                     ELSE 0
              /\ taken \in 0 .. EVICTION_BATCH_SIZE
              /\ after = SubSeq(before, taken + 1, Len(before))
              /\ removed
                   = {before[i].element.key : i \in 1 .. taken} \cap DOMAIN cache
              /\ \A k \in DOMAIN swept.cache : swept.cache[k] = cache[k]
              /\ Cardinality(removed) <= Min(EVICTION_BATCH_SIZE, to_evict)
              /\ Cardinality(removed) < Min(EVICTION_BATCH_SIZE, to_evict)
                   => after = <<>> \/ taken = EVICTION_BATCH_SIZE
              /\ swept.entry_count = entry_count - Cardinality(removed)
              /\ swept = [Self EXCEPT !.cache = swept.cache,
                                      !.deques.probation.nodes = after,
                                      !.entry_count = swept.entry_count]
              /\ Consistent(Self)
                   => /\ Cardinality(removed) = Min(EVICTION_BATCH_SIZE, to_evict)
                      /\ weights_to_evict(swept)
                           = to_evict - Min(EVICTION_BATCH_SIZE, to_evict)
                      /\ to_evict <= 2 * EVICTION_BATCH_SIZE
                           => weights_to_evict(again) = 0)
    /\ [][Called("contains_key") => Self' = evict_lru_entries(Self)]_vars

\* a public call has taken one batch from a cache that was more than one
\* batch above its limit, and has left the rest of the overshoot
C26_Witness ==
    /\ last.op = "contains_key"
    /\ Consistent(Self)
    /\ weights_to_evict(Self) > 0
    /\ ProbationKeys # <<>>
    /\ ProbationKeys[1] = SweepKey(EVICTION_BATCH_SIZE + 1)

\* the handle of a present key
HandleOf(k) == cache[k].access_order_q_node

(* C27: between public calls, the tagged node handle of every entry of the *)
(* hash table, if the entry has one, is tagged MainProbation, never Other, *)
(* and identifies a node that is linked in probation and holds the key of  *)
(* the entry; no two entries have the same node.                           *)
C27_HandlesPointIntoProbation ==
    /\ \A k \in DOMAIN cache :
          is_some(HandleOf(k))
          => /\ unwrap(HandleOf(k)).tag = "MainProbation"
             /\ \E i \in 1 .. Len(deques.probation.nodes) :
                   /\ deques.probation.nodes[i].id = unwrap(HandleOf(k)).node
                   /\ deques.probation.nodes[i].element.key = k
             /\ ~Deque_contains(deques.window, unwrap(HandleOf(k)).node)
             /\ ~Deque_contains(deques.protected, unwrap(HandleOf(k)).node)
    /\ \A j, k \in DOMAIN cache :
          (j # k /\ is_some(HandleOf(j)) /\ is_some(HandleOf(k)))
          => unwrap(HandleOf(j)).node # unwrap(HandleOf(k)).node
    /\ \A i, j \in 1 .. Len(deques.probation.nodes) :
          i # j => deques.probation.nodes[i].id # deques.probation.nodes[j].id

\* "c" was admitted in place of "a" and has taken the address of its node;
\* "b" and "c" have a handle each, to different nodes of probation
C27_Witness ==
    /\ last.op = "insert"
    /\ last.kind = "full"
    /\ DOMAIN cache = {"b", "c"}
    /\ is_some(HandleOf("b"))
    /\ is_some(HandleOf("c"))
    /\ unwrap(HandleOf("c")).node = 1
    /\ unwrap(HandleOf("b")).node = 2
    /\ ProbationKeys = <<"b", "c">>

\* the counter of a slot after an increment for the hash h, before aging
Bumped(s, h) ==
    IF s \in Probes(h) /\ frequency_sketch.table[s] < CounterMax
    THEN frequency_sketch.table[s] + 1
    ELSE frequency_sketch.table[s]

\* this step halves the counters
Ages == frequency_sketch.size + 1 > frequency_sketch.sample_size

(* C28: the frequency estimate is bounded and saturating: every counter    *)
(* and every frequency lies in 0..15; an increment that does not age the   *)
(* sketch raises each probed counter by one unless it is 15 already, and   *)
(* so the frequency of the key it counts; before ensure_capacity has been  *)
(* called increment is a no-op and frequency returns 0 for every hash.     *)
C28_FrequencyIsBoundedAndSaturating ==
    /\ [](/\ \A s \in Slots : frequency_sketch.table[s] \in 0 .. CounterMax
          /\ \A k \in Keys : FreqOf(k) \in 0 .. CounterMax
          /\ frequency_sketch.table_len = 0
               => \A k \in Keys :
                     /\ FreqOf(k) = 0
                     /\ increment(frequency_sketch, hash(k)) = frequency_sketch)
    /\ [][(Called("get") /\ frequency_sketch.table_len > 0 /\ ~Ages)
          => /\ \A s \in Probes(hash(last'.key)) :
                   frequency_sketch'.table[s]
                      = IF frequency_sketch.table[s] = CounterMax
                        THEN CounterMax
                        ELSE frequency_sketch.table[s] + 1
             /\ \A s \in Slots \ Probes(hash(last'.key)) :
                   frequency_sketch'.table[s] = frequency_sketch.table[s]
             /\ frequency(frequency_sketch', hash(last'.key))
                   = IF FreqOf(last'.key) = CounterMax
                     THEN CounterMax
                     ELSE FreqOf(last'.key) + 1]_vars

\* "a" has been read more often than a counter can count, with no aging
\* in between: its frequency is 15
C28_Witness ==
    /\ last.op = "get"
    /\ last.key = "a"
    /\ FreqOf("a") = CounterMax
    /\ frequency_sketch.size > CounterMax

(* C29: the sketch ages: every increment advances the sample counter by    *)
(* one, and the increment on which it exceeds the sample threshold halves  *)
(* every counter, c becoming floor(c / 2) for all counters in that one     *)
(* step, and sets the sample counter to 0; no frequency is higher after an *)
(* aging step than before it, and the frequency of a key that is not read  *)
(* is halved by it, so that it falls to 0 when the key is read no more.    *)
C29_AgingHalvesEveryCounter ==
    [][(Called("get") /\ frequency_sketch.table_len > 0)
       => IF Ages
          THEN /\ frequency_sketch'.size = 0
               /\ \A s \in Slots :
                     frequency_sketch'.table[s] = Bumped(s, hash(last'.key)) \div 2
               /\ \A k \in Keys : FreqOf(k)' <= FreqOf(k)
               /\ \A k \in Keys :
                     Probes(hash(k)) \cap Probes(hash(last'.key)) = {}
                     => /\ FreqOf(k)' = FreqOf(k) \div 2
                        /\ FreqOf(k) > 0 => FreqOf(k)' < FreqOf(k)
          ELSE /\ frequency_sketch'.size = frequency_sketch.size + 1
               /\ \A s \in Slots :
                     frequency_sketch'.table[s] = Bumped(s, hash(last'.key))]_vars

\* a read of "b" has aged a sketch in which "a" had reached 15: "a", not
\* read, is down to 7
C29_Witness ==
    /\ last.op = "get"
    /\ last.key = "b"
    /\ frequency_sketch.table_len > 0
    /\ frequency_sketch.size = 0
    /\ frequency_sketch.sample_size = LongSampleThreshold
    /\ FreqOf("a") = CounterMax \div 2
    /\ FreqOf("b") >= 1

\* the cache holds no more entries than its limit allows
WithinLimit(self) ==
    is_some(self.max_capacity)
    => u64_le(u64(self.entry_count), unwrap(self.max_capacity))

\* the states insert(key, value) goes through after its sweep: the value
\* stored, the victims removed if the key is new and admitted to a full
\* cache, and the state it returns
InsideInsert(self, key, value) ==
    LET stored == [self EXCEPT !.cache =
                      HashMap_insert(@, key, ValueEntry_new(value))]
        candidate == add_frequency(EntrySizeAndFrequency_new(1),
                                   stored.frequency_sketch, hash(key))
        result == admit(candidate, stored.deques, stored.frequency_sketch)
        contested == /\ key \notin DOMAIN self.cache
                     /\ ~has_enough_capacity(stored, 1, stored.entry_count)
                     /\ is_some(stored.max_capacity)
                     /\ u64_le(u64(1), unwrap(stored.max_capacity))
    IN  {stored, insert(self, key, value).self}
        \cup IF contested /\ result.admitted
             THEN {remove_victims(stored, result.victim_nodes)}
             ELSE {}

(* C30: the eviction sweep never evicts anything in a reachable state:     *)
(* entry_count never exceeds max_capacity, not even inside insert, which   *)
(* links a node only when there is free capacity or after it has removed a *)
(* victim; so weights_to_evict is 0 at the start of every public call and  *)
(* evict_lru_entries leaves the hash table, probation and entry_count, and *)
(* with them the whole cache, as they are.                                 *)
C30_SweepFindsNothing ==
    /\ WithinLimit(Self)
    /\ weights_to_evict(Self) = 0
    /\ evict_lru_entries(Self) = Self
    /\ \A key \in Keys : \A value \in ValuesOf(key) :
          /\ ~is_panic(insert(Self, key, value))
          /\ \A inside \in InsideInsert(Self, key, value) :
                /\ ~is_panic(inside)
                /\ WithinLimit(inside)

\* calls have followed the insert that filled a cache of capacity 1, the
\* last of them a get that found the one entry
C30_Witness ==
    /\ max_capacity = Some(u64(1))
    /\ entry_count = 1
    /\ Full
    /\ last.op = "get"
    /\ is_some(last.ret)
    /\ FreqOf(last.key) >= 1

\* the cache has a limit of at least one entry and holds that many
AtCapacity ==
    /\ is_some(max_capacity)
    /\ u64_le(u64(1), unwrap(max_capacity))
    /\ u64(entry_count) = unwrap(max_capacity)

(* C31: whenever a bounded cache with max_capacity >= 1 is full, with      *)
(* entry_count = max_capacity, its frequency sketch is enabled and its     *)
(* table allocated; so every insert that comes to the admission comparison *)
(* of a full cache finds the sketch enabled, never a disabled one that     *)
(* reads 0 for every key.                                                  *)
C31_FullCacheHasItsSketch ==
    /\ []((AtCapacity \/ Full)
            => /\ frequency_sketch_enabled
               /\ frequency_sketch.table_len > 0)
    /\ [][(/\ Called("insert")
           /\ last'.kind = "full"
           /\ u64_le(u64(1), unwrap(max_capacity)))
          => /\ AtCapacity
             /\ frequency_sketch_enabled
             /\ frequency_sketch.table_len > 0]_vars

\* an insert has come to the admission comparison of a cache of capacity 2
\* that was filled by two inserts and read since
C31_Witness ==
    /\ max_capacity = Some(u64(2))
    /\ AtCapacity
    /\ last.op = "insert"
    /\ last.kind = "full"
    /\ frequency_sketch_enabled
    /\ frequency_sketch.size >= 1

\* how many times in a row an insert is repeated
MaxRepeats == 3

\* the cache after n calls of insert(key, value), or PANIC
RECURSIVE after_inserts(_, _, _, _)
after_inserts(self, key, value, n) ==
    IF n = 0 THEN self
    ELSE LET inserted == insert(self, key, value)
         IN  IF is_panic(inserted) THEN PANIC
             ELSE after_inserts(inserted.self, key, value, n - 1)

(* C32: insert never increments the frequency sketch: the counters, the    *)
(* sample counter and the frequency of every key are the same after an     *)
(* insert as before it.  So a key whose estimated frequency is 0 is never  *)
(* admitted into a full cache: insert(k, v) of an absent k of frequency 0, *)
(* repeated any number of times with no get in between, is rejected every  *)
(* time and leaves the cache as it was.                                    *)
C32_UnreadKeyIsNeverAdmitted ==
    /\ [](\A k \in Keys \ DOMAIN cache : \A v \in ValuesOf(k) :
             (Full /\ FreqOf(k) = 0)
             => \A n \in 1 .. MaxRepeats :
                   after_inserts(Self, k, v, n) = Self)
    /\ [][Called("insert")
          => /\ frequency_sketch'.table = frequency_sketch.table
             /\ frequency_sketch'.size = frequency_sketch.size
             /\ \A k \in Keys : FreqOf(k)' = FreqOf(k)
             /\ (Full /\ last'.kind = "full" /\ FreqOf(last'.key) = 0)
                   => Self' = Self]_vars

\* "c", never read and of frequency 0, was inserted into a full cache of
\* capacity 2 whose sketch had counted reads of "a", and is not in it
C32_Witness ==
    /\ max_capacity = Some(u64(2))
    /\ last.op = "insert"
    /\ last.kind = "full"
    /\ last.key = "c"
    /\ FreqOf("c") = 0
    /\ FreqOf("a") >= 1
    /\ DOMAIN cache = {"a", "b"}
    /\ Full

(* C33: the invariant entry_count = size of the hash table = length of     *)
(* probation also holds after an invalidate_entries_if call that a failing *)
(* value destructor aborts part-way through its removal loop, as it does   *)
(* after invalidate_all: the entries already removed from the hash table   *)
(* and the deque are reflected in entry_count.  The code does not do this: *)
(* the unwinding skips the one statement that lowers entry_count.          *)
C33_CountsAgreeAfterAbortedInvalidation ==
    (~panicked /\ last.op = "invalidate_entries_if" /\ last.kind = "unwound")
    => /\ entry_count = Cardinality(DOMAIN cache)
       /\ entry_count = Len(deques.probation.nodes)

\* a destructor has panicked in invalidate_entries_if on a cache of
\* capacity 1 that held "a": the table and probation are empty and
\* entry_count is still 1, so the cache counts as full
C33_Witness ==
    /\ last.op = "invalidate_entries_if"
    /\ last.kind = "unwound"
    /\ ~panicked
    /\ max_capacity = Some(u64(1))
    /\ DOMAIN cache = {}
    /\ deques.probation.nodes = <<>>
    /\ entry_count = 1
    /\ \A k \in Keys : \A v \in ValuesOf(k) : insert(Self, k, v).self = Self

====
